---- MODULE Spec2Model ----
(***************************************************************************)
(* CodeBox: sandboxed execution of user code.  The model covers the HTTP   *)
(* submission handlers, the placeholder rewriter, the two Celery           *)
(* coordinators (run_code, run_code_with_files), the docker runner and     *)
(* the periodic storage purge.                                             *)
(*                                                                         *)
(* Text that the program inspects character by character (language         *)
(* labels, source code, file names, paths) is a sequence of one-character  *)
(* strings.  A captured output stream is only measured and cut by the      *)
(* program, so it is a record [raw, marker]: raw leading characters of the *)
(* stream, followed by the truncation marker when marker is TRUE.          *)
(***************************************************************************)
EXTENDS Integers, Sequences, FiniteSets, TLC

(***************************************************************************)
(* Characters                                                              *)
(***************************************************************************)
\* The characters used, in code point order (str comparison, sorted()).
AsciiOrder ==
  << " ", "\"", "+", "-", ".", "/",
     "0", "1", "2", "3", "4", "5", "6", "7", "8", "9",
     "A", "B", "C", "D", "E", "F", "G", "H", "I", "J", "K", "L", "M",
     "N", "O", "P", "Q", "R", "S", "T", "U", "V", "W", "X", "Y", "Z",
     "_",
     "a", "b", "c", "d", "e", "f", "g", "h", "i", "j", "k", "l", "m",
     "n", "o", "p", "q", "r", "s", "t", "u", "v", "w", "x", "y", "z",
     "{", "}" >>

Ord(c) == CHOOSE i \in 1..Len(AsciiOrder) : AsciiOrder[i] = c

Digit == {"0", "1", "2", "3", "4", "5", "6", "7", "8", "9"}
UpperCase == {AsciiOrder[i] : i \in 17..42}
LowerCase == {AsciiOrder[i] : i \in 44..69}
Whitespace == {" "}

\* \w of Python's re
IsWord(c) == c \in Digit \cup UpperCase \cup LowerCase \cup {"_"}
\* [A-Za-z0-9]
IsAlnum(c) == c \in Digit \cup UpperCase \cup LowerCase
\* [A-Za-z0-9_\-]
IsNameChar(c) == IsWord(c) \/ c = "-"

\* str.lower() on one character
LowerChar(c) == IF c \in UpperCase THEN AsciiOrder[Ord(c) + 27] ELSE c

Lower(s) == [i \in 1..Len(s) |-> LowerChar(s[i])]

RECURSIVE LStrip(_)
LStrip(s) == IF s # <<>> /\ Head(s) \in Whitespace THEN LStrip(Tail(s)) ELSE s

RECURSIVE RStrip(_)
RStrip(s) ==
  IF s # <<>> /\ s[Len(s)] \in Whitespace
    THEN RStrip(SubSeq(s, 1, Len(s) - 1)) ELSE s

\* str.strip()
Strip(s) == RStrip(LStrip(s))

\* int() of a run of decimal digits
RECURSIVE ParseInt(_)
ParseInt(ds) ==
  IF ds = <<>> THEN 0
  ELSE 10 * ParseInt(SubSeq(ds, 1, Len(ds) - 1)) + (Ord(ds[Len(ds)]) - Ord("0"))

\* s < t for str
RECURSIVE StrLess(_, _)
StrLess(s, t) ==
  IF t = <<>> THEN FALSE
  ELSE IF s = <<>> THEN TRUE
  ELSE IF Head(s) = Head(t) THEN StrLess(Tail(s), Tail(t))
  ELSE Ord(Head(s)) < Ord(Head(t))

\* Optional values: None, or a one-element tuple.
None == <<>>
Some(v) == <<v>>

(***************************************************************************)
(* lang_service.py: the language registry                                  *)
(***************************************************************************)
Language ==
  { <<"p","y","t","h","o","n">>,
    <<"j","a","v","a","s","c","r","i","p","t">>,
    <<"p","h","p">>,
    <<"c">>,
    <<"c","p","p">> }

_ALIASES ==
  { << <<"p","y">>, <<"p","y","t","h","o","n">> >>,
    << <<"p","y","t","h","o","n","3">>, <<"p","y","t","h","o","n">> >>,
    << <<"j","s">>, <<"j","a","v","a","s","c","r","i","p","t">> >>,
    << <<"n","o","d","e">>, <<"j","a","v","a","s","c","r","i","p","t">> >>,
    << <<"n","o","d","e","j","s">>, <<"j","a","v","a","s","c","r","i","p","t">> >>,
    << <<"c","+","+">>, <<"c","p","p">> >>,
    << <<"g","+","+">>, <<"c","p","p">> >>,
    << <<"c","p","p">>, <<"c","p","p">> >>,
    << <<"g","c","c">>, <<"c">> >> }

\* A lookup that knows no alias
AliasGet_none(key) == key

\* _ALIASES.get(key, key)
AliasGet(key) ==
  IF \E a \in _ALIASES : a[1] = key
    THEN (CHOOSE a \in _ALIASES : a[1] = key)[2]
    ELSE key

\* normalize_language: the Language, or None when ValueError is raised.
\* (s or "") maps a null label to the empty string.
normalize_language(s) ==
  LET key == AliasGet(Lower(Strip(s)))
  IN  IF key \in Language THEN Some(key) ELSE None

extract_extension(lang) ==
  CASE lang = <<"p","y","t","h","o","n">> -> <<"p","y">>
    [] lang = <<"j","a","v","a","s","c","r","i","p","t">> -> <<"j","s">>
    [] lang = <<"p","h","p">> -> <<"p","h","p">>
    [] lang = <<"c">> -> <<"c">>
    [] lang = <<"c","p","p">> -> <<"c","p","p">>

(***************************************************************************)
(* Paths                                                                   *)
(***************************************************************************)
\* settings.STORAGE_IN, settings.STORAGE_OUT (shortened roots)
STORAGE_IN == <<"/", "i", "n">>
STORAGE_OUT == <<"/", "o", "u", "t">>

\* str(uuid4()) of submission j: distinct per submission, over the uuid alphabet
JobId(j) == <<"e", AsciiOrder[Ord("0") + j]>>

\* The components of a POSIX path as pathlib parses it: empty and "."
\* components are dropped, ".." is kept.
RECURSIVE PathParts(_, _, _)
PathParts(p, i, cur) ==
  LET done == IF cur = <<>> \/ cur = <<".">> THEN <<>> ELSE <<cur>>
  IN  IF i > Len(p) THEN done
      ELSE IF p[i] = "/" THEN done \o PathParts(p, i + 1, <<>>)
      ELSE PathParts(p, i + 1, Append(cur, p[i]))

\* Path(p).name, os.path.basename for a name without trailing separator
PathName(p) ==
  LET parts == PathParts(p, 1, <<>>)
  IN  IF parts = <<>> THEN <<>> ELSE parts[Len(parts)]

\* str(Path(dir) / name) for a name without separators
PathJoin(dir, name) == IF name = <<>> THEN dir ELSE dir \o <<"/">> \o name

\* django.utils.text.get_valid_filename: strip, spaces to underscores, drop
\* every character outside [-\w.]; "", "." and ".." are refused
\* (SuspiciousFileOperation), which the result None stands for.
RECURSIVE KeepValid(_)
KeepValid(s) ==
  IF s = <<>> THEN <<>>
  ELSE LET c == IF Head(s) = " " THEN "_" ELSE Head(s)
       IN  (IF IsWord(c) \/ c \in {"-", "."} THEN <<c>> ELSE <<>>)
             \o KeepValid(Tail(s))

get_valid_filename(name) ==
  LET s == KeepValid(Strip(name))
  IN  IF s \in {<<>>, <<".">>, <<".", ".">>} THEN None ELSE Some(s)

(***************************************************************************)
(* lang_service.py: the placeholder rewriter                               *)
(***************************************************************************)
\* How many characters from position i on satisfy the class
RECURSIVE DigitRun(_, _)
DigitRun(s, i) ==
  IF i <= Len(s) /\ s[i] \in Digit THEN 1 + DigitRun(s, i + 1) ELSE 0

RECURSIVE NameRun(_, _)
NameRun(s, i) ==
  IF i <= Len(s) /\ IsNameChar(s[i]) THEN 1 + NameRun(s, i + 1) ELSE 0

RECURSIVE AlnumRun(_, _)
AlnumRun(s, i) ==
  IF i <= Len(s) /\ IsAlnum(s[i]) THEN 1 + AlnumRun(s, i + 1) ELSE 0

At(s, i) == IF 1 <= i /\ i <= Len(s) THEN s[i] ELSE ""

\* in_pat = \bIN_(\d+)\b : the length of the match that starts at i, or 0.
\* The digits are taken greedily; giving one back never creates a boundary.
in_pat(s, i) ==
  LET n == DigitRun(s, i + 3)
  IN  IF /\ At(s, i) = "I" /\ At(s, i + 1) = "N" /\ At(s, i + 2) = "_"
         /\ n >= 1
         /\ (i = 1 \/ ~IsWord(s[i - 1]))
         /\ (i + 3 + n > Len(s) \/ ~IsWord(s[i + 3 + n]))
        THEN 3 + n ELSE 0

\* out_pat = OUT_(?:\{)?([A-Za-z0-9_\-]+)(?:\})?\.([A-Za-z0-9]+) : the match
\* that starts at i as [len, name, ext], len = 0 when there is none.
out_pat(s, i) ==
  LET open  == IF At(s, i + 4) = "{" THEN 1 ELSE 0
      n0    == i + 4 + open
      n     == NameRun(s, n0)
      close == IF At(s, n0 + n) = "}" THEN 1 ELSE 0
      dot   == n0 + n + close
      e     == AlnumRun(s, dot + 1)
  IN  IF /\ At(s, i) = "O" /\ At(s, i + 1) = "U" /\ At(s, i + 2) = "T"
         /\ At(s, i + 3) = "_"
         /\ n >= 1 /\ At(s, dot) = "." /\ e >= 1
        THEN [len |-> dot + e - i + 1,
              name |-> SubSeq(s, n0, n0 + n - 1),
              ext |-> SubSeq(s, dot + 1, dot + e)]
        ELSE [len |-> 0, name |-> <<>>, ext |-> <<>>]

_to_string(s) == <<"\"">> \o s \o <<"\"">>

\* _replace_in without the test one_based < 1: index -1 is the last element
_replace_in_from_zero(m, input_files, task_id) ==
  LET one_based == ParseInt(SubSeq(m, 4, Len(m)))
      idx       == one_based - 1
  IN  IF idx >= Len(input_files) \/ input_files = <<>>
        THEN [err |-> TRUE, text |-> <<>>]
        ELSE [err |-> FALSE,
              text |-> _to_string(PathJoin(PathJoin(STORAGE_IN, task_id),
                         PathName(input_files[IF idx < 0 THEN Len(input_files)
                                              ELSE idx + 1])))]

\* _replace_in for one match m = IN_<digits>: [err, text]
_replace_in(m, input_files, task_id) ==
  LET one_based == ParseInt(SubSeq(m, 4, Len(m)))
      idx       == one_based - 1
  IN  IF one_based < 1 \/ idx >= Len(input_files)
        THEN [err |-> TRUE, text |-> <<>>]
        ELSE [err |-> FALSE,
              text |-> _to_string(PathJoin(PathJoin(STORAGE_IN, task_id),
                                           PathName(input_files[idx + 1])))]

\* _replace_out for one match: [err, text]
_replace_out(m, task_id) ==
  LET name == get_valid_filename(m.name)
  IN  IF name = None THEN [err |-> TRUE, text |-> <<>>]
      ELSE [err |-> FALSE,
            text |-> _to_string(PathJoin(PathJoin(STORAGE_OUT, task_id),
                        Lower(name[1]) \o <<".">> \o Lower(m.ext)))]

\* in_pat.sub(_replace_in, s): leftmost matches, left to right, the
\* replacement text is not scanned again.
RECURSIVE SubIn(_, _, _, _)
SubIn(s, i, input_files, task_id) ==
  IF i > Len(s) THEN [err |-> FALSE, text |-> <<>>]
  ELSE LET n == in_pat(s, i)
       IN  IF n = 0
             THEN LET r == SubIn(s, i + 1, input_files, task_id)
                  IN  [err |-> r.err, text |-> <<s[i]>> \o r.text]
             ELSE LET rep == _replace_in(SubSeq(s, i, i + n - 1),
                                         input_files, task_id)
                      r   == SubIn(s, i + n, input_files, task_id)
                  IN  [err |-> rep.err \/ r.err, text |-> rep.text \o r.text]

\* out_pat.sub(_replace_out, s)
RECURSIVE SubOut(_, _, _)
SubOut(s, i, task_id) ==
  IF i > Len(s) THEN [err |-> FALSE, text |-> <<>>]
  ELSE LET m == out_pat(s, i)
       IN  IF m.len = 0
             THEN LET r == SubOut(s, i + 1, task_id)
                  IN  [err |-> r.err, text |-> <<s[i]>> \o r.text]
             ELSE LET rep == _replace_out(m, task_id)
                      r   == SubOut(s, i + m.len, task_id)
                  IN  [err |-> rep.err \/ r.err, text |-> rep.text \o r.text]

\* process_source_code: [err, text]; err stands for the ValueError raised by
\* a replacement.
process_source_code(source_code, input_files, task_id) ==
  LET a == SubIn(source_code, 1, input_files, task_id)
  IN  IF a.err THEN [err |-> TRUE, text |-> <<>>]
      ELSE SubOut(a.text, 1, task_id)

\* Some input or output token is left in s
HasPlaceholder(s) ==
  \E i \in 1..Len(s) : in_pat(s, i) > 0 \/ out_pat(s, i).len > 0

\* validate_processed_source_code: TRUE when it returns, FALSE when it raises
\* ValueError.  Its body is not part of the sources at hand; it is the
\* residual-token check of the specification (section 4.2, Errors).
validate_processed_source_code(s) == ~HasPlaceholder(s)

(***************************************************************************)
(* docker_service.py: the runner's result dictionaries                     *)
(***************************************************************************)
\* The limit of _truncate and the marker it appends
TruncateLimit == 64000
Marker ==
  << "\n", ".", ".", ".", "[", "t", "r", "u", "n", "c", "a", "t", "e", "d",
     "]", ".", ".", "." >>

\* A captured stream of n characters, and the empty string
Stream(n) == [raw |-> n, marker |-> FALSE]
Empty == Stream(0)
\* len(s)
StrLen(s) == s.raw + (IF s.marker THEN Len(Marker) ELSE 0)

\* _truncate without the cut
_truncate_off(s) == s

\* _truncate(s): s[:limit] + marker when len(s) > limit
_truncate(s) ==
  IF StrLen(s) > TruncateLimit
    THEN [raw |-> IF s.raw < TruncateLimit THEN s.raw ELSE TruncateLimit,
          marker |-> TRUE]
    ELSE s

\* run_docker_command, normal completion of the docker client cp
CompletedResult(cp) ==
  [stdout |-> _truncate(cp.stdout), stderr |-> _truncate(cp.stderr),
   returncode |-> Some(cp.returncode)]

\* The timeout dictionary carrying the exit status of the killed client
TimeoutResult_with_returncode ==
  [error |-> Some("Execution time exceeded"), stdout |-> Empty,
   stderr |-> Empty, returncode |-> Some(-9)]

\* run_docker_command, except subprocess.TimeoutExpired
TimeoutResult ==
  [error |-> Some("Execution time exceeded"), stdout |-> Empty,
   stderr |-> Empty, returncode |-> None]

\* run_docker_command, except Exception
UnexpectedResult ==
  [error |-> Some("Unexpected error occurred"), stdout |-> Empty,
   stderr |-> Empty, returncode |-> None]

(***************************************************************************)
(* tasks.py: result normalisation and output listing                       *)
(***************************************************************************)
\* The unsupported-language dictionary without its returncode
UnsupportedResult_no_returncode ==
  [error |-> Some("Unsupported programming language")]

\* The dictionary returned for a label that normalize_language refuses
UnsupportedResult ==
  [error |-> Some("Unsupported programming language"), returncode |-> Some(2)]

\* dict.get(key, default)
Get(res, key, default) == IF key \in DOMAIN res THEN res[key] ELSE default

_normalize_result(res) ==
  [stdout |-> Get(res, "stdout", Empty),
   stderr |-> Get(res, "stderr", Empty),
   returncode |-> Get(res, "returncode", None),
   error |-> Get(res, "error", None)]

\* sorted(names): ascending in str order
RECURSIVE Sorted(_)
Sorted(names) ==
  IF names = {} THEN <<>>
  ELSE LET m == CHOOSE x \in names : \A y \in names \ {x} : StrLess(x, y)
       IN  <<m>> \o Sorted(names \ {m})

\* _collect_outputs on an output directory dir = [exists, entries]: the names
\* of the entries that are files, in sorted order
_collect_outputs(dir) ==
  IF ~dir.exists THEN <<>>
  ELSE Sorted({e.name : e \in {x \in dir.entries : x.file}})

(***************************************************************************)
(* Requests                                                                *)
(***************************************************************************)
\* How many submissions the model follows
NJobs == 2
Jobs == 1..NJobs
\* How many of them are in flight together in the pipeline specification
MaxActive == 1

PYTHON == <<"p","y","t","h","o","n">>
RUBY == <<"r","u","b","y">>
PY_ALIAS == <<" ","P","Y">>
A_TXT == <<"a",".","t">>
B_TXT == <<"b",".","t">>

\* serializers: LANG_CHOICES
LANG_CHOICES ==
  { PYTHON, <<"j","a","v","a","s","c","r","i","p","t">>, <<"c">>,
    <<"p","h","p">> }

\* A submission.  via: "task" and "file_task" are the two POST endpoints;
\* "run_code" and "run_code_with_files" are task messages published to the
\* queue by a producer other than the views (any caller of .delay()).
Request(via, label, source, inputs, files, outputs) ==
  [via |-> via, programming_language |-> label, source_code |-> source,
   input_files |-> inputs, files |-> files, output_files |-> outputs]

NoRequest == Request("none", <<>>, <<>>, <<>>, <<>>, <<>>)

\* The submissions of the pipeline specification
PipelineRequests ==
  { Request("task", PYTHON, <<"x">>, <<>>, <<>>, <<>>),
    Request("run_code", PY_ALIAS, <<"x">>, <<>>, <<>>, <<>>),
    Request("run_code", RUBY, <<"x">>, <<>>, <<>>, <<>>),
    Request("run_code_with_files", RUBY, <<"x">>, <<>>, <<>>, <<>>),
    Request("file_task", PYTHON,
            <<"I","N","_","1"," ","O","U","T","_","r",".","t">>,
            <<A_TXT>>, <<A_TXT>>, << <<"r",".","t">> >>),
    Request("file_task", <<"c">>, <<"I","N","_","2">>,
            <<A_TXT>>, <<A_TXT>>, <<>>) }

\* The source texts and the declared input lists of the rewriter specification
RewriteSources ==
  { <<"I", "N", "_", "1">>,
    <<"I", "N", "_", "0">>,
    <<"I", "N", "_", "2">>,
    <<"I", "N", "_", "0", "1">>,
    <<"x", "I", "N", "_", "1">>,
    <<"I", "N", "_", "1", "x">>,
    <<"I", "N", "_", "1", " ", "I", "N", "_", "2">>,
    <<"O", "U", "T", "_", "r", ".", "t">>,
    <<"O", "U", "T", "_", "{", "R", "}", ".", "T">>,
    <<"O", "U", "T", "_", "I", "N", "_", "1", ".", "t">>,
    <<"f", "(", "I", "N", "_", "1", ",", "O", "U", "T", "_", "a", ".", "b", ")">>,
    <<" ">>,
    <<"O", "U", "T", "_", "r">>,
    <<"I", "N", "_", "1", ".", "O", "U", "T", "_", "a", ".", "b">>,
    <<"p", "r", "i", "n", "t", "(", "1", ")">> }

RewriteInputs ==
  { <<>>,
    <<<<"a", ".", "t">>>>,
    <<<<"a", ".", "t">>, <<"b", ".", "t">>>>,
    <<<<"I", "N", "_", "2">>>>,
    <<<<"O", "U", "T", "_", "x", ".", "y">>>>,
    <<<<".", ".", "/", "a", ".", "t">>>>,
    <<<<".", ".">>>>,
    <<<<"a", " ", "b", ".", "t">>>>,
    <<<<"a", ".", "t">>, <<"a", ".", "t">>>> }

\* Each declared list comes with the same names uploaded, or with no upload
RewriteRequests ==
  { Request("file_task", PYTHON, src, inputs, files, << <<"r", ".", "t">> >>) :
      src \in RewriteSources,
      inputs \in RewriteInputs,
      files \in RewriteInputs }

IsFiles(req) == req.via \in {"file_task", "run_code_with_files"}

\* What a running container of a code-with-files job may create in its
\* output directory: two files and a subdirectory
OutEntries ==
  { [name |-> <<"r",".","t">>, file |-> TRUE],
    [name |-> <<"Z">>, file |-> TRUE],
    [name |-> <<"d">>, file |-> FALSE] }

\* What the docker client has captured when the container exits
ExitSamples ==
  { [returncode |-> 0, stdout |-> Stream(1), stderr |-> Empty],
    [returncode |-> 1, stdout |-> Stream(TruncateLimit + 1),
     stderr |-> Stream(TruncateLimit)] }

\* What the docker client has buffered when the deadline expires: the
\* program had printed something before it was cut off
BufferedSamples ==
  { [stdout |-> Stream(1), stderr |-> Stream(TruncateLimit + 1)] }

(***************************************************************************)
(* docker_service.py, lang_service.py, tasks.py: the argument vector of a  *)
(* launch.  An argument is a record [text, src, dst]: text is the argument *)
(* as written in the code, with {src} and {dst} where a path is formatted  *)
(* into it, and src, dst are those paths.                                  *)
(***************************************************************************)
Word(w) == [text |-> w, src |-> <<>>, dst |-> <<>>]

IMAGE_NAME == "code_runner:latest"
VENV_PATH == "/app/.venv/bin/python"
SANDBOX == <<"/", "s", "a", "n", "d", "b", "o", "x">>

\* The two --mount values of the code
BIND_RO == "type=bind,src={src},dst={dst},ro,bind-propagation=rprivate"
BIND_RW == "type=bind,src={src},dst={dst},bind-propagation=rprivate"

\* JobDir().path of submission j: a fresh directory under the exec base
JobDirPath(j) == <<"/", "x", "/", "t", AsciiOrder[Ord("0") + j]>>

\* build_lang_command(lang, source_path)
build_lang_command(lang, source_path) ==
  LET path == [text |-> "{src}", src |-> source_path, dst |-> <<>>]
  IN  CASE lang = <<"p","y","t","h","o","n">> -> <<Word(VENV_PATH), path>>
        [] lang = <<"j","a","v","a","s","c","r","i","p","t">> ->
             <<Word("node"), path>>
        [] lang = <<"p","h","p">> -> <<Word("php"), path>>
        [] lang = <<"c">> ->
             << Word("sh"), Word("-lc"),
                [text |-> "gcc {src} -O2 -std=c11 -o /tmp/main && /tmp/main",
                 src |-> source_path, dst |-> <<>>] >>
        [] lang = <<"c","p","p">> ->
             << Word("sh"), Word("-lc"),
                [text |-> "g++ {src} -O2 -std=c++17 -o /tmp/main && /tmp/main",
                 src |-> source_path, dst |-> <<>>] >>

\* get_docker_run_command_ro with the container left on the default network
get_docker_run_command_ro_networked(job_dir, lang_cmd) ==
  << Word("docker"), Word("run"), Word("--rm"),
     Word("--cpus"), Word("1.0"),
     Word("--memory"), Word("512m"),
     Word("--memory-swap"), Word("512m"),
     Word("--pids-limit"), Word("100"),
     Word("--cap-drop"), Word("ALL"),
     Word("--security-opt"), Word("no-new-privileges"),
     Word("--read-only"),
     Word("--mount"), [text |-> BIND_RO, src |-> job_dir, dst |-> SANDBOX],
     Word("--tmpfs"), Word("/tmp:rw,noexec,nosuid,nodev,size=64m"),
     Word("--workdir"), Word("/sandbox"),
     Word("--user"), Word("1000:1000"),
     Word(IMAGE_NAME) >> \o lang_cmd

\* get_docker_run_command_ro(job_dir, lang_cmd)
get_docker_run_command_ro(job_dir, lang_cmd) ==
  << Word("docker"), Word("run"), Word("--rm"),
     Word("--cpus"), Word("1.0"),
     Word("--memory"), Word("512m"),
     Word("--memory-swap"), Word("512m"),
     Word("--pids-limit"), Word("100"),
     Word("--cap-drop"), Word("ALL"),
     Word("--security-opt"), Word("no-new-privileges"),
     Word("--network"), Word("none"),
     Word("--read-only"),
     Word("--mount"), [text |-> BIND_RO, src |-> job_dir, dst |-> SANDBOX],
     Word("--tmpfs"), Word("/tmp:rw,noexec,nosuid,nodev,size=64m"),
     Word("--workdir"), Word("/sandbox"),
     Word("--user"), Word("1000:1000"),
     Word(IMAGE_NAME) >> \o lang_cmd

\* run_code_with_files: extra_mounts for the job task_id
extra_mounts(task_id) ==
  << Word("--mount"),
     [text |-> BIND_RO, src |-> STORAGE_IN, dst |-> STORAGE_IN],
     Word("--mount"),
     [text |-> BIND_RW, src |-> PathJoin(STORAGE_OUT, task_id),
      dst |-> PathJoin(STORAGE_OUT, task_id)] >>

\* The insertion point one place too far: behind the image name
insert_at_behind_image(cmd, lang_cmd) == Len(cmd) - Len(lang_cmd)

\* run_code_with_files: insert_at = len(cmd) - (len(lang_cmd) + 1), as the
\* number of arguments that stay in front
insert_at(cmd, lang_cmd) == Len(cmd) - (Len(lang_cmd) + 1)

\* The lang_cmd and the cmd that a coordinator builds: run_code, and
\* run_code_with_files, which inserts its mounts
LangCmd(lang) ==
  build_lang_command(lang, SANDBOX \o <<"/", "m", "a", "i", "n", ".">>
                             \o extract_extension(lang))

run_code_cmd(lang, job_dir) ==
  get_docker_run_command_ro(job_dir, LangCmd(lang))

run_code_with_files_cmd(lang, job_dir, task_id) ==
  LET cmd == get_docker_run_command_ro(job_dir, LangCmd(lang))
      at  == insert_at(cmd, LangCmd(lang))
  IN  SubSeq(cmd, 1, at) \o extra_mounts(task_id)
        \o SubSeq(cmd, at + 1, Len(cmd))

(***************************************************************************)
(* State                                                                   *)
(***************************************************************************)
VARIABLES
  request,    \* request[j]: the submission of client j
  pc,         \* pc[j]: "idle", "rejected", "queued", then the coordinator's
              \* next statement, then "returned" or "raised"
  http,       \* http[j]: status of the POST response, 0 before it
  payload,    \* payload[j]: the source text handed to the queued task
  inStore,    \* inStore[j]: names stored under <STORAGE_IN>/<JobId>/
  outStore,   \* outStore[j]: <STORAGE_OUT>/<JobId>/ as [exists, entries]
  jobDir,     \* jobDir[j]: "none", "created", "staged", "removed", "left"
  container,  \* container[j]: "none", "no_runtime", "no_image", "running",
              \* "exited"
  captured,   \* captured[j]: the streams the docker client had read when
              \* subprocess.run ended, None before
  result,     \* result[j]: Some(dictionary returned), None before
  raised,     \* raised[j]: the exception leaving the coordinator, "" if none
  outAtExit,  \* outAtExit[j]: Some(sorted regular files of the output
              \* directory when the container exited), None before
  argv,       \* argv[j]: the cmd handed to run_docker_command, <<>> before
  response,   \* response[j]: the last answer of GET /file_task/<id>/download
              \* for the task of submission j, NoResponse before
  answer,     \* answer[j]: the last answer of GET /task/<id>/task_result for
              \* the id of submission j, NoAnswer before
  jobPath,    \* jobPath[j]: the number n of the name that tempfile gave to
              \* the JobDir of submission j (its path is JobDirPath(n)), 0
              \* before
  written,    \* written[j]: the last call of JobDir.write on the JobDir of
              \* submission j, as [dir, rel, status, path], NoWrite before
  recipe,     \* recipe[j]: what the sh -lc recipe of a C or C++ job did in
              \* the container of submission j, NoRecipe before
  log         \* log[j]: the messages that the coordinator of submission j
              \* has logged, in order

vars ==
  << request, pc, http, payload, inStore, outStore, jobDir, container,
     captured, result, raised, outAtExit, argv, response, answer, jobPath,
     written, recipe, log >>

NoDir == [exists |-> FALSE, entries |-> {}]

\* An answer of the download endpoint: the HTTP status; what is streamed
\* ("file": the file names[1]; "zip": an archive of the entries names, with
\* the entry MISSING_FILES.txt listing missing when manifest is TRUE); and
\* what the handler saw: whether a TaskResult row existed and of which
\* task state, the output_files of its result (None when the result has no
\* such key), and the files present in the output directory.
Response(status, kind, names, manifest, missing, state, listed, present) ==
  [status |-> status, kind |-> kind, names |-> names, manifest |-> manifest,
   missing |-> missing, state |-> state, listed |-> listed,
   present |-> present]

NoResponse == Response(0, "none", <<>>, FALSE, <<>>, "none", None, {})

\* An answer of the task_result endpoint: the HTTP status; the status of
\* the TaskResult row (200) or the state reported by AsyncResult (202); the
\* result in the body, None without one; and what the handler saw: whether
\* the id had been given to a task, and the result stored for it, None
\* without a TaskResult row.
Answer(status, state, body, known, stored) ==
  [status |-> status, state |-> state, body |-> body, known |-> known,
   stored |-> stored]

NoAnswer == Answer(0, "none", None, FALSE, None)

\* What the recipe "compile -o /tmp/main && /tmp/main" did: whether the
\* compiler succeeded, whether /tmp/main was executed, and the exit status
\* of the shell when it is not that of the program
NoRecipe == [done |-> FALSE, compiled |-> FALSE, executed |-> FALSE,
             returncode |-> None]

\* A call job.write(rel, content) on the JobDir dir: it raised status, or
\* status is "written" and the file is at path
NoWrite == [dir |-> <<>>, rel |-> <<>>, status |-> "none", path |-> <<>>]

InitState ==
  /\ pc = [j \in Jobs |-> "idle"]
  /\ http = [j \in Jobs |-> 0]
  /\ payload = [j \in Jobs |-> <<>>]
  /\ inStore = [j \in Jobs |-> <<>>]
  /\ outStore = [j \in Jobs |-> NoDir]
  /\ jobDir = [j \in Jobs |-> "none"]
  /\ container = [j \in Jobs |-> "none"]
  /\ captured = [j \in Jobs |-> None]
  /\ result = [j \in Jobs |-> None]
  /\ raised = [j \in Jobs |-> ""]
  /\ outAtExit = [j \in Jobs |-> None]
  /\ argv = [j \in Jobs |-> <<>>]
  /\ response = [j \in Jobs |-> NoResponse]
  /\ answer = [j \in Jobs |-> NoAnswer]
  /\ jobPath = [j \in Jobs |-> 0]
  /\ written = [j \in Jobs |-> NoWrite]
  /\ recipe = [j \in Jobs |-> NoRecipe]
  /\ log = [j \in Jobs |-> <<>>]

\* Up to MaxActive of the clients submit something; the clients being
\* interchangeable, they are the first ones
Init ==
  /\ request \in [Jobs -> PipelineRequests \cup {NoRequest}]
  /\ Cardinality({j \in Jobs : request[j] # NoRequest}) <= MaxActive
  /\ \A j \in Jobs : request[j] # NoRequest =>
       \A i \in 1..(j - 1) : request[i] # NoRequest
  /\ InitState

(***************************************************************************)
(* Submission: the views, file_task_service.py, paths_service.py           *)
(***************************************************************************)
MAX_INPUT == 5
MAX_OUTPUT == 5

\* serializer.is_valid: the label is one of LANG_CHOICES as written and the
\* trimmed source is not blank
SerializerValid(req) ==
  /\ req.programming_language \in LANG_CHOICES
  /\ Strip(req.source_code) # <<>>

\* _validate_files_limits with >= in place of >
_validate_files_limits_at_max(input_files, output_files, files) ==
  /\ ~(Len(files) >= MAX_INPUT \/ Len(input_files) >= MAX_INPUT)
  /\ ~(Len(output_files) >= MAX_OUTPUT)

\* _validate_files_limits: TRUE when it returns, FALSE when it raises
_validate_files_limits(input_files, output_files, files) ==
  /\ ~(Len(files) > MAX_INPUT \/ Len(input_files) > MAX_INPUT)
  /\ ~(Len(output_files) > MAX_OUTPUT)

Names(files) == {PathName(files[i]) : i \in 1..Len(files)}

\* _validate_declared_vs_uploaded without the comparison of the name sets
_validate_declared_vs_uploaded_counts_only(input_files, files) ==
  IF input_files # <<>> /\ files # <<>>
    THEN Len(input_files) = Len(files)
    ELSE TRUE

\* _validate_declared_vs_uploaded: TRUE when it returns, FALSE when it raises
_validate_declared_vs_uploaded(input_files, files) ==
  IF input_files # <<>> /\ files # <<>>
    THEN Len(input_files) = Len(files) /\ Names(input_files) = Names(files)
    ELSE TRUE

\* os.path.basename: what follows the last separator
RECURSIVE os_path_basename(_)
os_path_basename(p) ==
  IF \E i \in 1..Len(p) : p[i] = "/"
    THEN os_path_basename(Tail(p)) ELSE p

\* Storage.get_available_name: a name that is taken gets "_" and random
\* characters before its extension; "7" stands for the random characters.
get_available_name(name, taken) ==
  IF \A i \in 1..Len(taken) : taken[i] # name THEN name
  ELSE LET dots == {i \in 2..Len(name) : name[i] = "."}
           cut  == IF dots = {} THEN Len(name) + 1
                   ELSE CHOOSE i \in dots : \A k \in dots : k <= i
       IN  SubSeq(name, 1, cut - 1) \o <<"_", "7">>
             \o SubSeq(name, cut, Len(name))

\* save_task_files_in_storage: [err, stored]; stored[i] is the name under
\* which files[i] was saved, err a refusal of get_valid_filename (the files
\* saved before it stay).
RECURSIVE save_task_files_in_storage(_, _)
save_task_files_in_storage(files, stored) ==
  IF files = <<>> THEN [err |-> FALSE, stored |-> stored]
  ELSE LET safe == get_valid_filename(os_path_basename(Head(files)))
       IN  IF safe = None THEN [err |-> TRUE, stored |-> stored]
           ELSE save_task_files_in_storage(Tail(files),
                  Append(stored, get_available_name(safe[1], stored)))

\* create_file_task without the residual-token check
SourceAccepted_unchecked(out) == ~out.err

\* create_file_task: process_source_code returned and
\* validate_processed_source_code let its text pass
SourceAccepted(out) == ~out.err /\ validate_processed_source_code(out.text)

Reject(j, status) ==
  /\ pc' = [pc EXCEPT ![j] = "rejected"]
  /\ http' = [http EXCEPT ![j] = status]
  /\ UNCHANGED payload

Enqueue(j, source) ==
  /\ pc' = [pc EXCEPT ![j] = "queued"]
  /\ http' = [http EXCEPT ![j] = 202]
  /\ payload' = [payload EXCEPT ![j] = source]

\* POST /task/create
create_new_task(j) ==
  /\ pc[j] = "idle" /\ request[j].via = "task"
  /\ IF SerializerValid(request[j])
       THEN Enqueue(j, Strip(request[j].source_code))
       ELSE Reject(j, 400)
  /\ UNCHANGED << request, inStore, outStore, jobDir, container, captured,
                  result, raised, outAtExit, argv, response, answer, jobPath,
                  written, recipe, log >>

\* POST /file_task/create: the view and create_file_task of the service
create_file_task(j) ==
  /\ pc[j] = "idle" /\ request[j].via = "file_task"
  /\ LET data   == request[j]
         source == Strip(data.source_code)
         saved  == save_task_files_in_storage(data.files, <<>>)
         out    == process_source_code(source, data.input_files, JobId(j))
     IN  IF ~SerializerValid(data)
           THEN Reject(j, 400) /\ UNCHANGED inStore
         ELSE IF ~(/\ _validate_files_limits(data.input_files,
                                             data.output_files, data.files)
                   /\ _validate_declared_vs_uploaded(data.input_files,
                                                     data.files))
           THEN Reject(j, 400) /\ UNCHANGED inStore
         ELSE /\ inStore' = [inStore EXCEPT ![j] = saved.stored]
              /\ IF saved.err THEN Reject(j, 500)
                 ELSE IF ~SourceAccepted(out) THEN Reject(j, 400)
                 ELSE Enqueue(j, out.text)
  /\ UNCHANGED << request, outStore, jobDir, container, captured, result,
                  raised, outAtExit, argv, response, answer, jobPath, written,
                  recipe, log >>

\* A task message for run_code or run_code_with_files published directly
send_task(j) ==
  /\ pc[j] = "idle" /\ request[j].via \in {"run_code", "run_code_with_files"}
  /\ pc' = [pc EXCEPT ![j] = "queued"]
  /\ payload' = [payload EXCEPT ![j] = request[j].source_code]
  /\ UNCHANGED << request, http, inStore, outStore, jobDir, container,
                  captured, result, raised, outAtExit, argv, response, answer,
                  jobPath, written, recipe, log >>

(***************************************************************************)
(* tasks.py: the coordinators run_code and run_code_with_files, one action *)
(* per statement that touches the file system or the container runtime     *)
(***************************************************************************)
\* AfterRun when the coordinator returns straight after run_docker_command
AfterRun_returns_at_once(j) == "returned"

\* The statement after run_docker_command: Shape B lists its outputs
AfterRun(j) == IF IsFiles(request[j]) THEN "collect" ELSE "cleanup"

\* A worker takes the message: normalize_language, and the early return
coordinator_start(j) ==
  /\ pc[j] = "queued"
  /\ IF normalize_language(request[j].programming_language) = None
       THEN /\ result' = [result EXCEPT
                 ![j] = Some(_normalize_result(UnsupportedResult))]
            /\ log' = [log EXCEPT ![j] = Append(@, "Unsupported language")]
            /\ pc' = [pc EXCEPT ![j] = "returned"]
       ELSE /\ pc' = [pc EXCEPT
                 ![j] = IF IsFiles(request[j]) THEN "mkdir" ELSE "jobdir"]
            /\ UNCHANGED << result, log >>
  /\ UNCHANGED << request, http, payload, inStore, outStore, jobDir,
                  container, captured, raised, outAtExit, argv, response,
                  answer, jobPath, written, recipe >>

\* run_code_with_files: out_dir.mkdir(parents=True, exist_ok=True)
mkdir_out(j) ==
  /\ pc[j] = "mkdir"
  /\ \/ /\ outStore' = [outStore EXCEPT ![j].exists = TRUE]
        /\ pc' = [pc EXCEPT ![j] = "jobdir"]
        /\ UNCHANGED raised
     \/ /\ raised' = [raised EXCEPT ![j] = "OSError"]
        /\ pc' = [pc EXCEPT ![j] = "raised"]
        /\ UNCHANGED outStore
  /\ UNCHANGED << request, http, payload, inStore, jobDir, container,
                  captured, result, outAtExit, argv, response, answer,
                  jobPath, written, recipe, log >>

\* The numbers of the names that exist in the exec base directory: the
\* JobDirs created and not removed
ExecEntries ==
  {jobPath[i] : i \in {k \in Jobs : jobDir[k] \in {"created", "staged", "left"}}}

\* mkdtemp that takes the first name whether it exists or not
mkdtemp_first_name(taken) == 1

\* tempfile.mkdtemp: it draws names at random until the mkdir of one
\* succeeds, that is, until the name does not exist.  The names being
\* interchangeable, the free name with the smallest number stands for the
\* one it finds.
mkdtemp(taken) == CHOOSE n \in 1..(NJobs + 1) :
                    n \notin taken /\ \A m \in 1..(n - 1) : m \in taken

\* job = JobDir(), before the try block
JobDir_init(j) ==
  /\ pc[j] = "jobdir"
  /\ \/ /\ jobDir' = [jobDir EXCEPT ![j] = "created"]
        /\ jobPath' = [jobPath EXCEPT ![j] = mkdtemp(ExecEntries)]
        /\ pc' = [pc EXCEPT ![j] = "write"]
        /\ UNCHANGED raised
     \/ /\ raised' = [raised EXCEPT ![j] = "OSError"]
        /\ pc' = [pc EXCEPT ![j] = "raised"]
        /\ UNCHANGED << jobDir, jobPath, written, recipe, log >>
  /\ UNCHANGED << request, http, payload, inStore, outStore, container,
                  captured, result, outAtExit, argv, response, answer,
                  written, recipe, log >>

\* job.write("main.<ext>", source_code), inside the try block
JobDir_write(j) ==
  /\ pc[j] = "write"
  /\ \/ /\ jobDir' = [jobDir EXCEPT ![j] = "staged"]
        /\ pc' = [pc EXCEPT ![j] = "run"]
        /\ UNCHANGED raised
     \/ /\ raised' = [raised EXCEPT ![j] = "OSError"]
        /\ pc' = [pc EXCEPT ![j] = "cleanup"]
        /\ UNCHANGED jobDir
  /\ UNCHANGED << request, http, payload, inStore, outStore, container,
                  captured, result, outAtExit, argv, response, answer,
                  jobPath, written, recipe, log >>

\* The cmd that the coordinator of submission j has built when it calls
\* run_docker_command
CoordinatorCmd(j) ==
  LET lang == normalize_language(request[j].programming_language)[1]
  IN  IF IsFiles(request[j])
        THEN run_code_with_files_cmd(lang, JobDirPath(jobPath[j]), JobId(j))
        ELSE run_code_cmd(lang, JobDirPath(jobPath[j]))

\* run_docker_command: subprocess.run starts the docker client.  Without a
\* docker executable it raises at once; without the image the client exits
\* 125 and no container exists; otherwise the container runs.
run_launch(j) ==
  /\ pc[j] = "run"
  /\ \/ /\ container' = [container EXCEPT ![j] = "no_runtime"]
        /\ result' = [result EXCEPT
             ![j] = Some(_normalize_result(UnexpectedResult))]
        /\ pc' = [pc EXCEPT ![j] = AfterRun(j)]
     \/ /\ container' = [container EXCEPT ![j] = "no_image"]
        /\ result' = [result EXCEPT
             ![j] = Some(_normalize_result(CompletedResult(
                      [returncode |-> 125, stdout |-> Empty,
                       stderr |-> Stream(1)])))]
        /\ pc' = [pc EXCEPT ![j] = AfterRun(j)]
     \/ /\ container' = [container EXCEPT ![j] = "running"]
        /\ pc' = [pc EXCEPT ![j] = "wait"]
        /\ UNCHANGED result
  /\ argv' = [argv EXCEPT ![j] = CoordinatorCmd(j)]
  /\ UNCHANGED << request, http, payload, inStore, outStore, jobDir, captured,
                  raised, outAtExit, response, answer, jobPath, written,
                  recipe, log >>

\* run_docker_command: the container exits before the deadline and
\* subprocess.run returns the CompletedProcess
run_complete(j) ==
  /\ pc[j] = "wait" /\ container[j] = "running"
  /\ \E cp \in ExitSamples :
       /\ captured' = [captured EXCEPT
            ![j] = Some([stdout |-> cp.stdout, stderr |-> cp.stderr])]
       /\ result' = [result EXCEPT
            ![j] = Some(_normalize_result(CompletedResult(cp)))]
  /\ container' = [container EXCEPT ![j] = "exited"]
  /\ outAtExit' = [outAtExit EXCEPT ![j] = Some(_collect_outputs(outStore[j]))]
  /\ pc' = [pc EXCEPT ![j] = AfterRun(j)]
  /\ UNCHANGED << request, http, payload, inStore, outStore, jobDir, raised,
                  argv, response, answer, jobPath, written, recipe, log >>

\* run_docker_command: the deadline expires; subprocess.run kills the docker
\* client (its child process) and raises TimeoutExpired.  Nothing stops the
\* container, which the docker daemon keeps running.
run_timeout(j) ==
  /\ pc[j] = "wait" /\ container[j] = "running"
  /\ \E b \in BufferedSamples :
       captured' = [captured EXCEPT ![j] = Some(b)]
  /\ result' = [result EXCEPT ![j] = Some(_normalize_result(TimeoutResult))]
  /\ pc' = [pc EXCEPT ![j] = AfterRun(j)]
  /\ UNCHANGED << request, http, payload, inStore, outStore, jobDir,
                  container, raised, outAtExit, argv, response, answer,
                  jobPath, written, recipe, log >>

\* run_code_with_files: norm["output_files"] = _collect_outputs(out_dir);
\* listing the directory may raise
collect(j) ==
  /\ pc[j] = "collect"
  /\ \/ /\ result' = [result EXCEPT
             ![j] = Some([k \in DOMAIN result[j][1] \cup {"output_files"} |->
                           IF k = "output_files"
                             THEN _collect_outputs(outStore[j])
                             ELSE result[j][1][k]])]
        /\ UNCHANGED raised
     \/ /\ result' = [result EXCEPT ![j] = None]
        /\ raised' = [raised EXCEPT ![j] = "OSError"]
  /\ pc' = [pc EXCEPT ![j] = "cleanup"]
  /\ UNCHANGED << request, http, payload, inStore, outStore, jobDir,
                  container, captured, outAtExit, argv, response, answer,
                  jobPath, written, recipe, log >>

\* cleanup after the try block instead of in a finally clause: an exception
\* of the try block skips it
cleanup_without_finally(j) ==
  /\ pc[j] = "cleanup"
  /\ IF raised[j] = ""
       THEN \/ jobDir' = [jobDir EXCEPT ![j] = "removed"] /\ UNCHANGED log
            \/ /\ jobDir' = [jobDir EXCEPT ![j] = "left"]
               /\ log' = [log EXCEPT ![j] = Append(@, "JobDir cleanup failed")]
       ELSE UNCHANGED << jobDir, log >>
  /\ pc' = [pc EXCEPT ![j] = IF raised[j] = "" THEN "returned" ELSE "raised"]
  /\ UNCHANGED << request, http, payload, inStore, outStore, container,
                  captured, result, raised, outAtExit, argv, response,
                  answer, jobPath, written, recipe >>

\* finally: job.cleanup() without the try around it: its failure leaves
\* the coordinator in place of the result or of the earlier exception
cleanup_raises(j) ==
  /\ pc[j] = "cleanup"
  /\ \/ /\ jobDir' = [jobDir EXCEPT ![j] = "removed"]
        /\ pc' = [pc EXCEPT
             ![j] = IF raised[j] = "" THEN "returned" ELSE "raised"]
        /\ UNCHANGED << result, raised >>
     \/ /\ jobDir' = [jobDir EXCEPT ![j] = "left"]
        /\ pc' = [pc EXCEPT ![j] = "raised"]
        /\ result' = [result EXCEPT ![j] = None]
        /\ raised' = [raised EXCEPT ![j] = "OSError"]
  /\ UNCHANGED << request, http, payload, inStore, outStore, container,
                  captured, outAtExit, argv, response, answer, jobPath,
                  written, recipe, log >>

\* finally: job.cleanup(), whose own failure is logged and swallowed; then
\* the return, or the exception of the try block
cleanup(j) ==
  /\ pc[j] = "cleanup"
  /\ \/ jobDir' = [jobDir EXCEPT ![j] = "removed"] /\ UNCHANGED log
     \/ /\ jobDir' = [jobDir EXCEPT ![j] = "left"]
        /\ log' = [log EXCEPT ![j] = Append(@, "JobDir cleanup failed")]
  /\ pc' = [pc EXCEPT ![j] = IF raised[j] = "" THEN "returned" ELSE "raised"]
  /\ UNCHANGED << request, http, payload, inStore, outStore, container,
                  captured, result, raised, outAtExit, argv, response,
                  answer, jobPath, written, recipe >>

(***************************************************************************)
(* The environment: the container and the storage purge                    *)
(***************************************************************************)
\* The user program creates an entry in its read-write output mount
container_write(j) ==
  /\ container[j] = "running" /\ IsFiles(request[j]) /\ outStore[j].exists
  /\ \E e \in OutEntries \ outStore[j].entries :
       outStore' = [outStore EXCEPT ![j].entries = @ \cup {e}]
  /\ UNCHANGED << request, pc, http, payload, inStore, jobDir, container,
                  captured, result, raised, outAtExit, argv, response, answer,
                  jobPath, written, recipe, log >>

\* A container that outlived its docker client ends by itself
container_exit(j) ==
  /\ container[j] = "running" /\ pc[j] # "wait"
  /\ container' = [container EXCEPT ![j] = "exited"]
  /\ outAtExit' = [outAtExit EXCEPT ![j] = Some(_collect_outputs(outStore[j]))]
  /\ UNCHANGED << request, pc, http, payload, inStore, outStore, jobDir,
                  captured, result, raised, argv, response, answer, jobPath,
                  written, recipe, log >>

\* cron.py: purge_storage removes every child of storage/in and storage/out
purge_storage ==
  /\ \E j \in Jobs : inStore[j] # <<>> \/ outStore[j] # NoDir
  /\ inStore' = [j \in Jobs |-> <<>>]
  /\ outStore' = [j \in Jobs |-> NoDir]
  /\ UNCHANGED << request, pc, http, payload, jobDir, container, captured,
                  result, raised, outAtExit, argv, response, answer, jobPath,
                  written, recipe, log >>

Next ==
  \/ \E j \in Jobs :
       \/ create_new_task(j)
       \/ create_file_task(j)
       \/ send_task(j)
       \/ coordinator_start(j)
       \/ mkdir_out(j)
       \/ JobDir_init(j)
       \/ JobDir_write(j)
       \/ run_launch(j)
       \/ run_complete(j)
       \/ run_timeout(j)
       \/ collect(j)
       \/ cleanup(j)
       \/ container_write(j)
       \/ container_exit(j)
  \/ purge_storage

Spec == Init /\ [][Next]_vars

\* The statements of the coordinator of submission j.  A worker that has
\* taken a message executes them one after the other; each returns or
\* raises, and subprocess.run returns at the latest when its timeout expires
Coordinator(j) ==
  \/ coordinator_start(j) \/ mkdir_out(j) \/ JobDir_init(j) \/ JobDir_write(j)
  \/ run_launch(j) \/ run_complete(j) \/ run_timeout(j) \/ collect(j)
  \/ cleanup(j)

(***************************************************************************)
(* The submission specification: the pipeline for one client whose request *)
(* may also fail at each step of create_file_task, or name any language    *)
(***************************************************************************)
\* Requests that fail the limits, the consistency test, the storing of an
\* upload, the rewriter, and the residual-token check
RejectedRequests ==
  { Request("file_task", PYTHON, <<"x">>, <<>>, <<>>,
            [k \in 1..(MAX_OUTPUT + 1) |-> B_TXT]),
    Request("file_task", PYTHON, <<"x">>, <<A_TXT>>, <<B_TXT>>, <<>>),
    Request("file_task", PYTHON, <<"x">>,
            << <<".", ".">> >>, << <<".", ".">> >>, <<>>),
    Request("file_task", PYTHON, <<"I","N","_","1">>, <<>>, <<>>, <<>>),
    Request("file_task", PYTHON, <<"I","N","_","1">>,
            << <<"I","N","_","2">> >>, << <<"I","N","_","2">> >>, <<>>) }

\* Task messages for every language, for both coordinators
LanguageRequests ==
  { Request(via, lang, <<"x">>, <<>>, <<>>, <<>>) :
      via \in {"run_code", "run_code_with_files"}, lang \in Language }

InitSubmit ==
  /\ \E r \in PipelineRequests \cup RejectedRequests \cup LanguageRequests :
       request = [j \in Jobs |-> IF j = 1 THEN r ELSE NoRequest]
  /\ InitState

SpecSubmit == InitSubmit /\ [][Next]_vars

\* The submission specification under fair scheduling: a worker takes every
\* queued message, and a coordinator that can take a step takes one
SpecLifecycle ==
  InitSubmit /\ [][Next]_vars /\ \A j \in Jobs : WF_vars(Coordinator(j))

(***************************************************************************)
(* The concurrency specification: MaxConcurrent clients submit together,   *)
(* and workers run their jobs in any interleaving                          *)
(***************************************************************************)
\* How many jobs are in flight together in the concurrency specification
MaxConcurrent == 2

\* A job with an upload, an IN_ and an OUT_ token
ConcurrentRequest ==
  Request("file_task", PYTHON,
          <<"I","N","_","1"," ","O","U","T","_","r",".","t">>,
          <<A_TXT>>, <<A_TXT>>, << <<"r",".","t">> >>)

InitConcurrent ==
  /\ request = [j \in Jobs |-> IF j <= MaxConcurrent THEN ConcurrentRequest
                                                    ELSE NoRequest]
  /\ InitState

NextConcurrent ==
  \E j \in Jobs : create_file_task(j) \/ Coordinator(j)

SpecConcurrent == InitConcurrent /\ [][NextConcurrent]_vars

(***************************************************************************)
(* paths_service.py: JobDir.write, and the write specification: on the     *)
(* JobDir of one job, write is called with each path of RelPaths           *)
(***************************************************************************)
\* Path.resolve on the components of an absolute path without symbolic
\* links: ".." removes the component before it, and stays at the root
RECURSIVE resolve(_, _)
resolve(parts, acc) ==
  IF parts = <<>> THEN acc
  ELSE IF Head(parts) = <<".", ".">>
    THEN resolve(Tail(parts),
                 IF acc = <<>> THEN acc ELSE SubSeq(acc, 1, Len(acc) - 1))
  ELSE resolve(Tail(parts), Append(acc, Head(parts)))

\* str(path) of an absolute path given by its components
RECURSIVE PathStr(_)
PathStr(parts) ==
  IF parts = <<>> THEN <<"/">>
  ELSE IF Len(parts) = 1 THEN <<"/">> \o parts[1]
  ELSE <<"/">> \o Head(parts) \o PathStr(Tail(parts))

\* str.startswith
startswith(s, prefix) ==
  Len(prefix) <= Len(s) /\ SubSeq(s, 1, Len(prefix)) = prefix

\* JobDir.write(rel, content) on the JobDir at path dir.  self.path /
\* Path(rel) is rel itself when rel is absolute.  A path that passes the
\* test and is the JobDir itself cannot be opened as a file.
JobDir_write_path(dir, rel) ==
  LET joined == IF rel # <<>> /\ rel[1] = "/" THEN rel
                ELSE dir \o <<"/">> \o rel
      p      == PathStr(resolve(PathParts(joined, 1, <<>>), <<>>))
  IN  [dir |-> dir, rel |-> rel, path |-> p,
       status |-> IF ~startswith(p, dir) THEN "ValueError"
                  ELSE IF p = dir THEN "IsADirectoryError"
                  ELSE "written"]

\* job.write(rel, ...) on the JobDir of submission j
write(j, rel) ==
  /\ jobDir[j] \in {"created", "staged"}
  /\ written' = [written EXCEPT
       ![j] = JobDir_write_path(JobDirPath(jobPath[j]), rel)]
  /\ UNCHANGED << request, pc, http, payload, inStore, outStore, jobDir,
                  container, captured, result, raised, outAtExit, argv,
                  response, answer, jobPath, recipe, log >>

\* The names of which the paths of the write specification are made: the
\* name of the JobDir, names that begin with it, and others
RelNames ==
  { <<".", ".">>, <<".">>, <<"a">>, <<"t", "1">>, <<"t", "1", "x">>,
    <<"t", "1", "0">>, <<"x">> }

\* The relative paths of one to three names, the same with a leading
\* separator, and the empty path
RelPaths ==
  LET one   == RelNames
      two   == {a \o <<"/">> \o b : a \in RelNames, b \in RelNames}
      three == {a \o <<"/">> \o b : a \in two, b \in RelNames}
      rels  == one \cup two \cup three
  IN  rels \cup {<<"/">> \o r : r \in rels} \cup {<<>>}

InitWrite ==
  /\ request = [j \in Jobs |->
       IF j = 1 THEN Request("task", PYTHON, <<"x">>, <<>>, <<>>, <<>>)
       ELSE NoRequest]
  /\ InitState

NextWrite ==
  \E j \in Jobs :
    \/ create_new_task(j)
    \/ coordinator_start(j)
    \/ JobDir_init(j)
    \/ \E rel \in RelPaths : write(j, rel)

SpecWrite == InitWrite /\ [][NextWrite]_vars

(***************************************************************************)
(* The rewriter specification: one POST /file_task/create whose source and *)
(* declared inputs range over RewriteSources and RewriteInputs             *)
(***************************************************************************)
InitRewrite ==
  /\ \E r \in {x \in RewriteRequests : x.files \in {<<>>, x.input_files}} :
       request = [j \in Jobs |-> IF j = 1 THEN r ELSE NoRequest]
  /\ InitState

NextRewrite == \E j \in Jobs : create_file_task(j)

SpecRewrite == InitRewrite /\ [][NextRewrite]_vars

(***************************************************************************)
(* The limits specification: one POST /file_task/create whose three lists  *)
(* have every length from 0 to MaxCount                                    *)
(***************************************************************************)
\* The longest list a request of the limits specification carries
MaxCount == 6

FileName(k) == <<"f", AsciiOrder[Ord("0") + k]>>
FirstNames(n) == [k \in 1..n |-> FileName(k)]

LimitRequests ==
  { Request("file_task", PYTHON, <<"x">>, FirstNames(a), FirstNames(b),
            FirstNames(c)) :
      a \in 0..MaxCount, b \in 0..MaxCount, c \in 0..MaxCount }

InitLimits ==
  /\ \E r \in LimitRequests :
       request = [j \in Jobs |-> IF j = 1 THEN r ELSE NoRequest]
  /\ InitState

NextLimits == \E j \in Jobs : create_file_task(j)

SpecLimits == InitLimits /\ [][NextLimits]_vars

(***************************************************************************)
(* views/code_with_files.py, media_service.py: the download endpoint, and  *)
(* the download specification: the pipeline for one client who also polls  *)
(* GET /file_task/<id>/download                                            *)
(***************************************************************************)
\* normalize_output_files: one OutputEntry (path, arcname) per listed file.
\* Its body is not part of the sources at hand; the specification (section
\* 3, OutputEntry) gives the pair.  A path is given by the file's name in
\* the output directory of the job.
normalize_output_files(files) ==
  [k \in 1..Len(files) |-> [path |-> files[k], arcname |-> files[k]]]

\* default_storage.exists(path) for a path of job j's output directory
storage_exists(j, path) ==
  outStore[j].exists /\ [name |-> path, file |-> TRUE] \in outStore[j].entries

\* The arcnames of the entries whose file exists (wanted = TRUE) or does
\* not (wanted = FALSE), in order
RECURSIVE SelectArcnames(_, _, _)
SelectArcnames(entries, j, wanted) ==
  IF entries = <<>> THEN <<>>
  ELSE (IF storage_exists(j, Head(entries).path) = wanted
          THEN <<Head(entries).arcname>> ELSE <<>>)
         \o SelectArcnames(Tail(entries), j, wanted)

\* build_zip_spooled: the arcnames written, and the missing ones
build_zip_spooled(entries, j) ==
  [names |-> SelectArcnames(entries, j, TRUE),
   missing |-> SelectArcnames(entries, j, FALSE)]

\* The files now present in the output directory of job j
PresentFiles(j) ==
  IF outStore[j].exists
    THEN {e.name : e \in {x \in outStore[j].entries : x.file}} ELSE {}

\* download_file_task for a TaskResult row whose result is results; an
\* exception that no except clause names leaves the view (status 500)
DownloadAnswer(j, state, results) ==
  IF "output_files" \notin DOMAIN results
    THEN Response(500, "error", <<>>, FALSE, <<>>, state, None,
                  PresentFiles(j))
  ELSE LET files   == results.output_files
           entries == normalize_output_files(files)
           zip     == build_zip_spooled(entries, j)
       IN  IF entries = <<>>
             THEN Response(404, "error", <<>>, FALSE, <<>>, state,
                           Some(files), PresentFiles(j))
           ELSE IF Len(entries) = 1
             THEN IF storage_exists(j, entries[1].path)
                    THEN Response(200, "file", <<entries[1].arcname>>, FALSE,
                                  <<>>, state, Some(files), PresentFiles(j))
                    ELSE Response(404, "error", <<>>, FALSE, <<>>, state,
                                  Some(files), PresentFiles(j))
           ELSE Response(200, "zip", zip.names, zip.missing # <<>>,
                         zip.missing, state, Some(files), PresentFiles(j))

\* What the result backend stores for a task that raised
FailureResult == [exc_type |-> "OSError"]

\* GET /file_task/<task_id>/download for the task of submission j
download_file_task(j) ==
  /\ pc[j] \notin {"idle", "rejected"}
  /\ response' = [response EXCEPT ![j] =
       IF pc[j] = "returned"
         THEN DownloadAnswer(j, "SUCCESS", result[j][1])
       ELSE IF pc[j] = "raised"
         THEN DownloadAnswer(j, "FAILURE", FailureResult)
       ELSE Response(202, "state", <<>>, FALSE, <<>>, "none", None,
                     PresentFiles(j))]
  /\ UNCHANGED << request, pc, http, payload, inStore, outStore, jobDir,
                  container, captured, result, raised, outAtExit, argv,
                  answer, jobPath, written, recipe, log >>

NextDownload == Next \/ \E j \in Jobs : download_file_task(j)

SpecDownload == InitSubmit /\ [][NextDownload]_vars

(***************************************************************************)
(* views/code_execution.py: the result endpoint, and the result            *)
(* specification: the pipeline for one client, with GET                    *)
(* /task/<id>/task_result for every id, issued or not                      *)
(***************************************************************************)
\* Whether the id of submission j was given to a task
Submitted(j) == pc[j] \notin {"idle", "rejected"}

\* TaskResult.objects.get(task_id=pk) finds a row: the result backend
\* writes it when the task has returned or raised
TaskResultExists(j) == pc[j] \in {"returned", "raised"}

\* task_result.status
TaskStatus(j) == IF pc[j] = "returned" THEN "SUCCESS" ELSE "FAILURE"

\* task_result.result
StoredResult(j) == IF pc[j] = "returned" THEN result[j][1] ELSE FailureResult

\* AsyncResult(pk).state: the state of the stored row; for an id without a
\* row the backend has nothing to tell a task that waits or runs from an id
\* that no task ever had, and reports PENDING
AsyncResult_state(j) ==
  IF TaskResultExists(j) THEN TaskStatus(j) ELSE "PENDING"

\* task_result: a payload with "sterr" and no "stderr" gets the key renamed
RenameSterr(p) ==
  IF "stderr" \notin DOMAIN p /\ "sterr" \in DOMAIN p
    THEN [k \in (DOMAIN p \ {"sterr"}) \cup {"stderr"} |->
           IF k = "stderr" THEN p["sterr"] ELSE p[k]]
    ELSE p

\* TaskResultPayloadSerializer: the declared fields that the payload has
TaskResultPayload(p) ==
  [k \in DOMAIN p \cap
          {"stdout", "stderr", "returncode", "error", "output_files"} |->
     p[k]]

\* GET /task/<task_id>/task_result for the id of submission j
task_result(j) ==
  /\ answer' = [answer EXCEPT ![j] =
       IF TaskResultExists(j)
         THEN Answer(200, TaskStatus(j),
                     Some(TaskResultPayload(RenameSterr(StoredResult(j)))),
                     Submitted(j), Some(StoredResult(j)))
       ELSE IF AsyncResult_state(j)
                 \in {"PENDING", "RECEIVED", "STARTED", "RETRY"}
         THEN Answer(202, AsyncResult_state(j), None, Submitted(j), None)
       ELSE Answer(404, "none", None, Submitted(j), None)]
  /\ UNCHANGED << request, pc, http, payload, inStore, outStore, jobDir,
                  container, captured, result, raised, outAtExit, argv,
                  response, jobPath, written, recipe, log >>

NextResult == Next \/ \E j \in Jobs : task_result(j)

SpecResult == InitSubmit /\ [][NextResult]_vars

(***************************************************************************)
(* The labels specification: one task message of either coordinator whose  *)
(* language label ranges over Labels                                       *)
(***************************************************************************)
\* Labels by the language they stand for; a null label is the empty one
\* (s or "")
PythonLabels ==
  { <<"p","y","t","h","o","n">>, <<"p","y">>, <<"p","y","t","h","o","n","3">>,
    <<" ","P","Y">>, <<"P","y","t","h","o","n"," ">>, <<"P","Y","T","H","O","N","3">> }
JavaScriptLabels ==
  { <<"j","a","v","a","s","c","r","i","p","t">>, <<"j","s">>, <<"n","o","d","e">>,
    <<"n","o","d","e","j","s">>, <<"N","o","d","e","J","S">>, <<" ","J","s"," ">> }
PhpLabels ==
  { <<"p","h","p">>, <<"P","H","P">>, <<" ","p","h","p">> }
CLabels ==
  { <<"c">>, <<"g","c","c">>, <<"C"," ">>,
    <<"G","C","C">> }
CppLabels ==
  { <<"c","p","p">>, <<"c","+","+">>, <<"g","+","+">>,
    <<"C","+","+">>, <<" ","G","+","+"," ">>, <<"C","P","P">> }
OtherLabels ==
  { <<>>, <<" ">>, <<"r","u","b","y">>,
    <<"p","y","t","h">>, <<"p","y","t","h","o","n","2">>, <<"p","y","3">>,
    <<"c","+">>, <<"c","c">>, <<"g","p","p">>,
    <<"j","a","v","a">>, <<"p"," ","y">>, <<"n","o","d","e"," ","j","s">>,
    <<"c"," ","+","+">>, <<"+">>, <<"j","a","v","a","s","c","r","i","p","t","3">>,
    <<"n","o","d","e","j">>, <<"p","h","p","3">>, <<"g","+","+","c">> }
Labels ==
  PythonLabels \cup JavaScriptLabels \cup PhpLabels \cup CLabels
    \cup CppLabels \cup OtherLabels

InitLabels ==
  /\ \E via \in {"run_code", "run_code_with_files"}, label \in Labels :
       request = [j \in Jobs |->
                   IF j = 1 THEN Request(via, label, <<"x">>, <<>>, <<>>, <<>>)
                   ELSE NoRequest]
  /\ InitState

NextLabels == \E j \in Jobs : send_task(j) \/ coordinator_start(j)

SpecLabels == InitLabels /\ [][NextLabels]_vars

\* The same labels in requests to the two POST endpoints
InitSubmitLabels ==
  /\ \E via \in {"task", "file_task"}, label \in Labels :
       request = [j \in Jobs |->
         IF j = 1 THEN Request(via, label, <<"x">>, <<>>, <<>>, <<>>)
         ELSE NoRequest]
  /\ InitState

NextSubmitLabels ==
  \E j \in Jobs :
    create_new_task(j) \/ create_file_task(j) \/ coordinator_start(j)

SpecSubmitLabels == InitSubmitLabels /\ [][NextSubmitLabels]_vars

(***************************************************************************)
(* Properties                                                              *)
(***************************************************************************)
Ended(j) == pc[j] \in {"returned", "raised"}
Returned(j) == pc[j] = "returned" /\ result[j] # None
Res(j) == result[j][1]

\* The error kinds of the specification for the error strings of the code
ErrorKind(e) ==
  CASE e = None -> "none"
    [] e = Some("Unsupported programming language") -> "UnsupportedLanguage"
    [] e = Some("Execution time exceeded") -> "TimeoutExceeded"
    [] e = Some("Unexpected error occurred") -> "Internal"
    [] OTHER -> "Internal"

\* C1 (as stated): once a coordinator has returned or raised, the JobDir it
\* created no longer exists under the exec base directory.
C1_JobDirGone ==
  \A j \in Jobs : Ended(j) => jobDir[j] \in {"none", "removed"}

\* C1 (amended): once a coordinator has returned or raised, job.cleanup() has
\* run on the JobDir it created: the directory is gone, or cleanup itself
\* failed (logged and swallowed) and left it behind; it is never left
\* without a cleanup attempt.
C1_JobDirCleanedUp ==
  \A j \in Jobs : Ended(j) => jobDir[j] \in {"none", "removed", "left"}

\* C1 witness: a coordinator raised out of the try block (main.<ext> could
\* not be written) and its JobDir is gone.
C1_Witness ==
  \E j \in Jobs : pc[j] = "raised" /\ jobDir[j] = "removed"

\* C2 (as stated): every returned result has exactly one of a present
\* returncode and a present error.
C2_ReturncodeXorError ==
  \A j \in Jobs :
    Returned(j) => ((Res(j).returncode # None) # (Res(j).error # None))

\* C2 (amended): every returned result has a returncode or an error, never
\* neither; it has both only on the unsupported-language path (error
\* "Unsupported programming language" with returncode 2), and exactly one of
\* the two on every other path.
C2_ReturncodeXorErrorButUnsupported ==
  \A j \in Jobs :
    Returned(j) =>
      LET both == Res(j).returncode # None /\ Res(j).error # None
          bad  == normalize_language(request[j].programming_language) = None
      IN  /\ Res(j).returncode # None \/ Res(j).error # None
          /\ both <=> bad
          /\ both => /\ Res(j).returncode = Some(2)
                     /\ ErrorKind(Res(j).error) = "UnsupportedLanguage"

\* C2 witness: a result returned with both an error and a returncode.
C2_Witness ==
  \E j \in Jobs :
    Returned(j) /\ Res(j).returncode # None /\ Res(j).error # None

\* C3 (as stated): stdout and stderr of a returned result are each at most
\* 64,000 characters long, the marker included.
C3_StreamsWithinCap ==
  \A j \in Jobs :
    Returned(j) => /\ StrLen(Res(j).stdout) <= TruncateLimit
                   /\ StrLen(Res(j).stderr) <= TruncateLimit

\* C3 (amended): stdout and stderr of a returned result each keep at most
\* 64,000 characters of the captured stream, and are at most 64,000 plus the
\* length of the marker (18) characters long.
C3_StreamsWithinCapPlusMarker ==
  \A j \in Jobs :
    Returned(j) =>
      \A s \in {Res(j).stdout, Res(j).stderr} :
        /\ s.raw <= TruncateLimit
        /\ StrLen(s) <= TruncateLimit + Len(Marker)

\* C3 witness: a returned result whose stdout was cut and marked.
C3_Witness ==
  \E j \in Jobs :
    /\ Returned(j) /\ Res(j).stdout.marker
    /\ captured[j] # None /\ StrLen(captured[j][1].stdout) > TruncateLimit

\* C4 (as stated): no failure after language normalisation leaves the
\* coordinator as an exception; each gives a returned result with error
\* Internal and no returncode.
C4_NoErrorEscapes ==
  \A j \in Jobs :
    /\ pc[j] # "raised"
    /\ raised[j] # "" /\ Ended(j) =>
         /\ result[j] # None
         /\ ErrorKind(Res(j).error) = "Internal"
         /\ Res(j).returncode = None

\* C5 (as stated): after the deadline expired the result has error
\* TimeoutExceeded, no returncode, and the stdout and stderr buffered up to
\* the deadline.
C5_TimeoutKeepsBuffered ==
  \A j \in Jobs :
    (result[j] # None /\ ErrorKind(Res(j).error) = "TimeoutExceeded") =>
      /\ Res(j).returncode = None
      /\ Res(j).stdout = _truncate(captured[j][1].stdout)
      /\ Res(j).stderr = _truncate(captured[j][1].stderr)

\* C6 (as stated): once a coordinator has ended, the container launched for
\* its job is no longer running.
C6_NoContainerAfterReturn ==
  \A j \in Jobs : Ended(j) => container[j] # "running"

\* C7 (as stated): when the container cannot be launched (no docker
\* executable, or no image) the result has error LaunchFailed and no
\* returncode.
C7_LaunchFailed ==
  \A j \in Jobs :
    (result[j] # None /\ container[j] \in {"no_runtime", "no_image"}) =>
      /\ ErrorKind(Res(j).error) = "LaunchFailed"
      /\ Res(j).returncode = None

\* C8: when the language label cannot be normalised, either coordinator
\* returns error UnsupportedLanguage with returncode 2, and creates no
\* JobDir, no output directory and no container.
C8_UnsupportedLanguage ==
  \A j \in Jobs :
    ( /\ normalize_language(request[j].programming_language) = None
      /\ pc[j] \notin {"idle", "rejected", "queued"} ) =>
        /\ Returned(j)
        /\ ErrorKind(Res(j).error) = "UnsupportedLanguage"
        /\ Res(j).returncode = Some(2)
        /\ Res(j).stdout = Empty /\ Res(j).stderr = Empty
        /\ jobDir[j] = "none"
        /\ ~outStore[j].exists
        /\ container[j] = "none"

\* C8 witness: run_code_with_files has returned for a label that does not
\* normalise.
C8_Witness ==
  \E j \in Jobs :
    /\ Returned(j) /\ IsFiles(request[j])
    /\ normalize_language(request[j].programming_language) = None

\* C9 (as stated): the output_files of a code-with-files job are exactly
\* the regular files of its output directory as the container left them at
\* its exit, sorted by name; the container changes nothing afterwards.
C9_OutputsAsAtContainerExit ==
  \A j \in Jobs :
    (Returned(j) /\ "output_files" \in DOMAIN Res(j)) =>
      /\ container[j] # "running"
      /\ outAtExit[j] # None =>
           Res(j).output_files = outAtExit[j][1]

SourceOf(j) == Strip(request[j].source_code)
Rewritten(j) ==
  process_source_code(SourceOf(j), request[j].input_files, JobId(j))

\* The index of the input token that starts at position i of s
InIndex(s, i) == ParseInt(SubSeq(s, i + 3, i + in_pat(s, i) - 1))

\* Some input token of s has an index below 1 or above n
InOutOfRange(s, n) ==
  \E i \in 1..Len(s) :
    in_pat(s, i) > 0 /\ (InIndex(s, i) < 1 \/ InIndex(s, i) > n)

\* C11: process_source_code fails for every source holding an input token
\* whose index is below 1 or above the number of declared inputs, and such
\* a request is answered 400 and not queued; with no declared inputs it
\* succeeds exactly when the source holds no input token.
C11_BadPlaceholder ==
  \A j \in Jobs :
    request[j].via = "file_task" =>
      LET n == Len(request[j].input_files)
      IN  /\ InOutOfRange(SourceOf(j), n) =>
               /\ Rewritten(j).err
               /\ pc[j] # "queued"
               /\ pc[j] = "rejected" => http[j] \in {400, 500}
          /\ n = 0 =>
               (~Rewritten(j).err <=>
                  \A i \in 1..Len(SourceOf(j)) : in_pat(SourceOf(j), i) = 0)

\* C11 witness: a request that declares one input and uses IN_2 was answered
\* 400 because the rewriter failed.
C11_Witness ==
  \E j \in Jobs :
    /\ pc[j] = "rejected" /\ http[j] = 400
    /\ Len(request[j].input_files) = 1
    /\ \E i \in 1..Len(SourceOf(j)) :
         in_pat(SourceOf(j), i) > 0 /\ InIndex(SourceOf(j), i) = 2
    /\ Rewritten(j).err

\* The path the specification gives for IN_k and for an output token m
InPath(k, input_files, task_id) ==
  PathJoin(PathJoin(STORAGE_IN, task_id), PathName(input_files[k]))
OutPath(m, task_id) ==
  PathJoin(PathJoin(STORAGE_OUT, task_id),
           Lower(KeepValid(m.name)) \o <<".">> \o Lower(m.ext))

\* The source with every token of it replaced by its quoted path, for a
\* source whose input tokens are all in range
RECURSIVE TokensReplaced(_, _, _, _)
TokensReplaced(s, i, input_files, task_id) ==
  IF i > Len(s) THEN <<>>
  ELSE IF in_pat(s, i) > 0
    THEN _to_string(InPath(InIndex(s, i), input_files, task_id))
           \o TokensReplaced(s, i + in_pat(s, i), input_files, task_id)
  ELSE IF out_pat(s, i).len > 0
    THEN _to_string(OutPath(out_pat(s, i), task_id))
           \o TokensReplaced(s, i + out_pat(s, i).len, input_files, task_id)
  ELSE <<s[i]>> \o TokensReplaced(s, i + 1, input_files, task_id)

\* name is one path component that names an entry of a directory
IsChildName(name) ==
  /\ name \notin {<<>>, <<".">>, <<".", ".">>}
  /\ \A i \in 1..Len(name) : name[i] # "/"

\* The declared inputs that the input tokens of s refer to
InputsUsed(s, input_files) ==
  { input_files[InIndex(s, i)] :
      i \in {k \in 1..Len(s) : in_pat(s, k) > 0} }

\* C12 (as stated, for a request that uploads the files it declares): in
\* the source handed to the queued job every input token stands replaced by
\* exactly the quoted <STORAGE_IN>/<JobId>/<basename>, whatever the declared
\* name looks like, and that path is a direct child of the job's own input
\* directory.
C12_InputPathIsChildOfJobInputDir ==
  \A j \in Jobs :
    ( /\ request[j].via = "file_task" /\ pc[j] = "queued"
      /\ request[j].files # <<>> ) =>
      /\ payload[j] = TokensReplaced(SourceOf(j), 1, request[j].input_files,
                                     JobId(j))
      /\ \A n \in InputsUsed(SourceOf(j), request[j].input_files) :
           IsChildName(PathName(n))

\* The positions of the input tokens' indices in the source of submission j
IndicesUsed(j) ==
  { InIndex(SourceOf(j), i) :
      i \in {k \in 1..Len(SourceOf(j)) : in_pat(SourceOf(j), k) > 0} }

\* The uploaded files of submission j have pairwise distinct basenames
DistinctUploads(j) ==
  \A a, b \in 1..Len(request[j].files) :
    PathName(request[j].files[a]) = PathName(request[j].files[b]) => a = b

\* C13 (as stated): for a queued request that uploads files with distinct
\* basenames and declares them, the path substituted for IN_i is the path
\* under which save_task_files_in_storage stored the uploaded file named
\* declared_inputs[i-1].
C13_InputPathIsStoredPath ==
  \A j \in Jobs :
    ( /\ request[j].via = "file_task" /\ pc[j] = "queued"
      /\ request[j].files # <<>> /\ DistinctUploads(j) ) =>
      \A i \in IndicesUsed(j) :
        \E k \in 1..Len(request[j].files) :
          /\ PathName(request[j].files[k]) = PathName(request[j].input_files[i])
          /\ InPath(i, request[j].input_files, JobId(j))
               = PathJoin(PathJoin(STORAGE_IN, JobId(j)), inStore[j][k])

\* C14 (as stated): a request is accepted only if it uploads as many files
\* as it declares inputs and the uploaded basenames are the declared
\* basenames, also when one of the two lists is empty.
C14_UploadedMatchDeclared ==
  \A j \in Jobs :
    (request[j].via = "file_task" /\ pc[j] = "queued") =>
      /\ Len(request[j].files) = Len(request[j].input_files)
      /\ Names(request[j].files) = Names(request[j].input_files)

\* C15: a request with 6 or more uploaded files, declared inputs or declared
\* outputs is answered 400 and nothing of it is stored or queued; a request
\* with at most 5 of each is never refused for its counts (it is queued
\* unless the uploaded and the declared names disagree).
C15_LimitsAtFive ==
  \A j \in Jobs :
    (request[j].via = "file_task" /\ pc[j] # "idle"
       /\ SerializerValid(request[j])) =>
      LET a == Len(request[j].input_files)
          b == Len(request[j].files)
          c == Len(request[j].output_files)
      IN  /\ (a >= 6 \/ b >= 6 \/ c >= 6) =>
               pc[j] = "rejected" /\ http[j] = 400 /\ inStore[j] = <<>>
          /\ (a <= 5 /\ b <= 5 /\ c <= 5
                /\ _validate_declared_vs_uploaded(request[j].input_files,
                                                  request[j].files)
                /\ ~save_task_files_in_storage(request[j].files, <<>>).err
                /\ SourceAccepted(Rewritten(j))) =>
               pc[j] # "rejected" /\ http[j] = 202

\* C15 witness: a request with 5 uploads, 5 declared inputs and 6 declared
\* outputs was answered 400.
C15_Witness ==
  \E j \in Jobs :
    /\ pc[j] = "rejected" /\ http[j] = 400
    /\ Len(request[j].files) = 5 /\ Len(request[j].input_files) = 5
    /\ Len(request[j].output_files) = 6

\* Every step of create_file_task before the enqueue succeeds for submission
\* j: at most 5 of each list; the uploaded and the declared names agree when
\* both are given; every upload can be stored; the rewriter and the
\* residual-token check pass
StepsPassed(j) ==
  LET r == request[j]
  IN  /\ SerializerValid(r)
      /\ Len(r.files) <= 5 /\ Len(r.input_files) <= 5
      /\ Len(r.output_files) <= 5
      /\ (r.input_files = <<>> \/ r.files = <<>>
            \/ (/\ Len(r.input_files) = Len(r.files)
                /\ Names(r.input_files) = Names(r.files)))
      /\ \A k \in 1..Len(r.files) :
           get_valid_filename(os_path_basename(r.files[k])) # None
      /\ ~Rewritten(j).err
      /\ ~HasPlaceholder(Rewritten(j).text)

\* C16: a code-with-files request is enqueued only when every step before
\* the enqueue passed, with its uploads stored; a request that fails a step
\* is answered with an error, is not enqueued, and no JobDir, container or
\* result ever exists for it.
C16_EnqueuedOnlyAfterAllSteps ==
  \A j \in Jobs :
    request[j].via = "file_task" =>
      /\ pc[j] \notin {"idle", "rejected"} => StepsPassed(j)
      /\ pc[j] = "queued" =>
           \/ Len(inStore[j]) = Len(request[j].files)
           \/ inStore[j] = <<>>
      /\ (pc[j] # "idle" /\ ~StepsPassed(j)) =>
           /\ pc[j] = "rejected" /\ http[j] \in {400, 500}
           /\ payload[j] = <<>>
      /\ pc[j] = "rejected" =>
           /\ jobDir[j] = "none" /\ container[j] = "none"
           /\ result[j] = None /\ ~outStore[j].exists

\* C16 witness: IN_1 with no declared inputs was answered 400, and nothing
\* was launched.
C16_Witness ==
  \E j \in Jobs :
    /\ request[j].input_files = <<>> /\ SourceOf(j) = <<"I","N","_","1">>
    /\ pc[j] = "rejected" /\ http[j] = 400 /\ container[j] = "none"

\* How the docker client reads `docker run ...`: options up to the first
\* argument that is not one; that argument is the image, the rest is the
\* command of the container.  Options without a value, and with one:
DockerFlags == {"--rm", "--read-only"}
DockerOptions ==
  { "--cpus", "--memory", "--memory-swap", "--pids-limit", "--cap-drop",
    "--security-opt", "--network", "--mount", "--tmpfs", "--workdir",
    "--user" }

\* The position of the image in a, reading from position i (0 if none)
RECURSIVE ImageIndex(_, _)
ImageIndex(a, i) ==
  IF i > Len(a) THEN 0
  ELSE IF a[i].text \in DockerFlags THEN ImageIndex(a, i + 1)
  ELSE IF a[i].text \in DockerOptions THEN ImageIndex(a, i + 2)
  ELSE i

\* The positions of the option names in a, reading from position i
RECURSIVE OptionPositions(_, _)
OptionPositions(a, i) ==
  IF i > Len(a) THEN {}
  ELSE IF a[i].text \in DockerFlags THEN {i} \cup OptionPositions(a, i + 1)
  ELSE IF a[i].text \in DockerOptions
    THEN {i} \cup OptionPositions(a, i + 2)
  ELSE {}

\* a sets the flag; a sets the option to value and to nothing else
HasFlag(a, flag) == \E i \in OptionPositions(a, 3) : a[i] = Word(flag)
HasOption(a, name, value) ==
  /\ \E i \in OptionPositions(a, 3) : a[i] = Word(name)
  /\ \A i \in OptionPositions(a, 3) :
       a[i] = Word(name) => (i < Len(a) /\ a[i + 1] = Word(value))

\* The values of the --mount options of a
Mounts(a) ==
  { a[i + 1] : i \in {k \in OptionPositions(a, 3) : a[k] = Word("--mount")} }

\* A launch was issued for submission j
Launched(j) == argv[j] # <<>>

\* C17: the argument vector of every launch, of either coordinator, starts
\* with docker run and sets, as options of docker run: --rm, --cpus 1.0,
\* --memory 512m, --memory-swap 512m, --pids-limit 100, --cap-drop ALL,
\* --security-opt no-new-privileges, --network none, --read-only,
\* --user 1000:1000 and --workdir /sandbox, none of them a second time with
\* another value, for the image code_runner:latest.
C17_MandatoryConstraints ==
  \A j \in Jobs :
    Launched(j) =>
      LET a == argv[j]
      IN  /\ Len(a) >= 3 /\ a[1] = Word("docker") /\ a[2] = Word("run")
          /\ HasFlag(a, "--rm")
          /\ HasOption(a, "--cpus", "1.0")
          /\ HasOption(a, "--memory", "512m")
          /\ HasOption(a, "--memory-swap", "512m")
          /\ HasOption(a, "--pids-limit", "100")
          /\ HasOption(a, "--cap-drop", "ALL")
          /\ HasOption(a, "--security-opt", "no-new-privileges")
          /\ HasOption(a, "--network", "none")
          /\ HasFlag(a, "--read-only")
          /\ HasOption(a, "--user", "1000:1000")
          /\ HasOption(a, "--workdir", "/sandbox")
          /\ ImageIndex(a, 3) > 0
          /\ a[ImageIndex(a, 3)] = Word(IMAGE_NAME)

\* C17 witness: run_code_with_files launched a C++ job with its mounts
\* inserted.
C17_Witness ==
  \E j \in Jobs :
    /\ Launched(j) /\ IsFiles(request[j])
    /\ normalize_language(request[j].programming_language)
         = Some(<<"c","p","p">>)
    /\ \E m \in Mounts(argv[j]) : m.text = BIND_RW

\* C18: every launch mounts the JobDir read-only at /sandbox; a code-only
\* launch has no other mount; a code-with-files launch has exactly two more,
\* the input storage root read-only and <STORAGE_OUT>/<JobId> read-write,
\* each at its host path; all mounts are options of docker run, and what
\* follows the image is the language command unchanged.  So the only
\* writable bind mount is the job's own output directory.
C18_MountsOfALaunch ==
  \A j \in Jobs :
    Launched(j) =>
      LET a    == argv[j]
          lang == normalize_language(request[j].programming_language)[1]
          img  == ImageIndex(a, 3)
          job  == [text |-> BIND_RO, src |-> JobDirPath(jobPath[j]),
                   dst |-> SANDBOX]
          inp  == [text |-> BIND_RO, src |-> STORAGE_IN, dst |-> STORAGE_IN]
          out  == [text |-> BIND_RW, src |-> PathJoin(STORAGE_OUT, JobId(j)),
                   dst |-> PathJoin(STORAGE_OUT, JobId(j))]
      IN  /\ img > 0 /\ a[img] = Word(IMAGE_NAME)
          /\ SubSeq(a, img + 1, Len(a)) = LangCmd(lang)
          /\ Mounts(a) = IF IsFiles(request[j]) THEN {job, inp, out}
                         ELSE {job}
          /\ Cardinality({i \in 1..Len(a) : a[i] = Word("--mount")})
               = IF IsFiles(request[j]) THEN 3 ELSE 1
          /\ \A m \in Mounts(a) :
               m.text = BIND_RW =>
                 m.src = PathJoin(STORAGE_OUT, JobId(j)) /\ m.dst = m.src
          /\ \A k \in Jobs \ {j} :
               \A m \in Mounts(a) :
                 m.src # PathJoin(STORAGE_OUT, JobId(k))

\* C18 witness: a code-only launch and its single mount.
C18_Witness ==
  \E j \in Jobs :
    /\ Launched(j) /\ ~IsFiles(request[j])
    /\ Cardinality(Mounts(argv[j])) = 1
    /\ container[j] = "running"

\* The Language a label stands for in the specification, None if none
LabelLanguage(label) ==
  CASE label \in PythonLabels -> Some(<<"p","y","t","h","o","n">>)
    [] label \in JavaScriptLabels ->
         Some(<<"j","a","v","a","s","c","r","i","p","t">>)
    [] label \in PhpLabels -> Some(<<"p","h","p">>)
    [] label \in CLabels -> Some(<<"c">>)
    [] label \in CppLabels -> Some(<<"c","p","p">>)
    [] OTHER -> None

\* C19: normalize_language gives Python for python, py, python3, JavaScript
\* for javascript, js, node, nodejs, PHP for php, C for c, gcc and C++ for
\* cpp, c++, g++, in any letter case and with blanks around; it fails for
\* every other label, the empty one included, and the coordinator then
\* returns UnsupportedLanguage; applied to the identifier of its result it
\* gives the same Language.
C19_NormalizeLanguage ==
  \A j \in Jobs :
    request[j].programming_language \in Labels =>
      LET label == request[j].programming_language
          lang  == normalize_language(label)
      IN  /\ lang = LabelLanguage(label)
          /\ lang # None =>
               lang[1] \in Language /\ normalize_language(lang[1]) = lang
          /\ (request[j].via \in {"run_code", "run_code_with_files"}
                /\ pc[j] \notin {"idle", "queued"}) =>
               (lang = None <=>
                  /\ Returned(j)
                  /\ ErrorKind(Res(j).error) = "UnsupportedLanguage")

\* C19 witness: the coordinator took " G++ " for C++ and went on.
C19_Witness ==
  \E j \in Jobs :
    /\ request[j].programming_language = <<" ", "G", "+", "+", " ">>
    /\ pc[j] \notin {"idle", "queued", "returned"}

\* The elements of a sequence
Range(seq) == {seq[k] : k \in 1..Len(seq)}

\* C20 (as stated): when the TaskResult of the task is complete, the
\* download endpoint answers 404 if the result lists no output file or has
\* no output_files at all, streams the file if it lists one that is present,
\* and otherwise streams a ZIP of the listed files that are present, with a
\* MISSING_FILES.txt naming the absent ones; without a TaskResult, while
\* the task is queued or running, it answers 202.
C20_DownloadAnswers ==
  \A j \in Jobs :
    LET r == response[j]
    IN  /\ (r.status # 0 /\ r.state = "SUCCESS") =>
             /\ r.listed \in {None, Some(<<>>)} => r.status = 404
             /\ (r.listed # None /\ Len(r.listed[1]) = 1
                   /\ r.listed[1][1] \in r.present) =>
                  r.status = 200 /\ r.kind = "file" /\ r.names = r.listed[1]
             /\ (r.listed # None /\ Len(r.listed[1]) >= 2) =>
                  /\ r.status = 200 /\ r.kind = "zip"
                  /\ Range(r.names) = Range(r.listed[1]) \cap r.present
                  /\ Range(r.missing) = Range(r.listed[1]) \ r.present
                  /\ r.manifest <=> r.missing # <<>>
        /\ (r.status # 0 /\ r.state = "none") => r.status = 202

\* C21 (as stated): the result endpoint answers 200 with the stored result
\* when the task has a stored result, 202 with a non-terminal state when
\* the id belongs to a submitted task without one, and 404, never 202, when
\* the id was never given to a task.
C21_TaskResultAnswers ==
  \A j \in Jobs :
    LET a == answer[j]
    IN  a.status # 0 =>
          /\ a.stored # None =>
               /\ a.status = 200
               /\ a.state = "SUCCESS" => a.body = a.stored
          /\ (a.known /\ a.stored = None) =>
               /\ a.status = 202
               /\ a.state \in {"PENDING", "RECEIVED", "STARTED", "RETRY"}
          /\ ~a.known => a.status = 404

\* The outcome of the run of job j, once run_docker_command is behind it
Outcome(j) ==
  IF raised[j] # "" \/ result[j] = None THEN "Failed"
  ELSE IF ErrorKind(Res(j).error) = "TimeoutExceeded" THEN "TimedOut"
  ELSE IF Res(j).error = None THEN "Completed"
  ELSE "Failed"

\* The state of job j in the state machine of the specification.  Beside
\* its five states: "Unsupported", the early return for a label that is not
\* a language; "Aborted", ended by an exception before a JobDir existed;
\* "Left", ended with the JobDir left behind by a failed cleanup;
\* "Abandoned", ended without a cleanup.
Stage(j) ==
  CASE pc[j] \in {"idle", "rejected"} -> "None"
    [] pc[j] \in {"queued", "mkdir", "jobdir"} -> "Accepted"
    [] pc[j] \in {"write", "run"} -> "Staging"
    [] pc[j] = "wait" -> "Running"
    [] pc[j] \in {"collect", "cleanup"} -> Outcome(j)
    [] OTHER ->
         CASE jobDir[j] = "removed" -> "Cleaned"
           [] jobDir[j] = "left" -> "Left"
           [] jobDir[j] = "none" ->
                IF raised[j] = "" THEN "Unsupported" ELSE "Aborted"
           [] OTHER -> "Abandoned"

Outcomes == {"Completed", "TimedOut", "Failed"}

\* A worker has taken the message of job j and found its language
WorkerStarted(j) ==
  pc[j] \notin {"idle", "rejected", "queued"} /\ Stage(j) # "Unsupported"

\* The steps of the state machine of the specification, and the early
\* return for an unsupported label
StageSteps ==
  {<<"None", "Accepted">>, <<"Accepted", "Unsupported">>,
   <<"Accepted", "Staging">>, <<"Staging", "Running">>}
    \cup {<<"Running", o>> : o \in Outcomes}
    \cup {<<o, "Cleaned">> : o \in Outcomes}

\* The steps the coordinators take beside them: an exception before the
\* JobDir exists, a source that cannot be written, an enumeration that
\* fails after the run, a cleanup that fails
FailureSteps ==
  {<<"Accepted", "Aborted">>, <<"Staging", "Failed">>,
   <<"Completed", "Failed">>, <<"TimedOut", "Failed">>}
    \cup {<<o, "Left">> : o \in Outcomes}

\* A launch that fails at once: run_docker_command was entered and left in
\* one step
LaunchFailedAtOnce(j) ==
  /\ pc[j] = "run" /\ container'[j] \in {"no_runtime", "no_image"}
  /\ Stage(j)' \in Outcomes

\* The source is written before the launch; the outputs are enumerated
\* after the run has returned and while the JobDir exists
StepOrder(j) ==
  /\ (pc[j] = "run" /\ pc'[j] # "run") => jobDir[j] = "staged"
  /\ (pc[j] = "collect" /\ pc'[j] # "collect") =>
       /\ jobDir[j] = "staged" /\ result[j] # None /\ argv[j] # <<>>
       /\ pc'[j] = "cleanup" /\ jobDir'[j] = "staged"

IsUnder(path, dir) ==
  /\ Len(dir) <= Len(path)
  /\ SubSeq(path, 1, Len(dir)) = dir
  /\ Len(path) = Len(dir) \/ path[Len(dir) + 1] = "/"

\* The mounts of the launch of job j through which its container reaches path
MountsReaching(j, path) == {m \in Mounts(argv[j]) : IsUnder(path, m.src)}

\* The directories of job j: input, output, JobDir
InDir(j) == PathJoin(STORAGE_IN, JobId(j))
OutDir(j) == PathJoin(STORAGE_OUT, JobId(j))
HasJobDir(j) == jobDir[j] \in {"created", "staged", "left"}

\* Jobs i and j have distinct JobIds and output directories, distinct
\* JobDirs while both exist, and the container launched for j, while the
\* JobDir of j exists, has neither the JobDir nor the output directory of i
\* mounted
OwnDirectories(i, j) ==
  /\ (Submitted(i) /\ Submitted(j)) =>
       JobId(i) # JobId(j) /\ OutDir(i) # OutDir(j) /\ InDir(i) # InDir(j)
  /\ (HasJobDir(i) /\ HasJobDir(j)) =>
       JobDirPath(jobPath[i]) # JobDirPath(jobPath[j])
  /\ (Launched(j) /\ HasJobDir(j)) =>
       /\ HasJobDir(i) => MountsReaching(j, JobDirPath(jobPath[i])) = {}
       /\ outStore[i].exists => MountsReaching(j, OutDir(i)) = {}

\* C23 (as stated): in every interleaving of concurrent jobs, no two jobs
\* share a JobId, a JobDir or an output directory, no container has the
\* JobDir or the output directory of another job mounted, and what a job
\* computes depends on its own request alone: its container reaches no
\* file that another job uploaded.
C23_JobsIsolated ==
  \A i, j \in Jobs :
    i # j =>
      /\ OwnDirectories(i, j)
      /\ (container[j] = "running" /\ inStore[i] # <<>>) =>
           MountsReaching(j, PathJoin(InDir(i), inStore[i][1])) = {}

\* C23 (amended): in every interleaving of concurrent jobs, no two jobs
\* share a JobId, a JobDir or an output directory, and no container has
\* the JobDir or the output directory of another job mounted; the inputs
\* that other jobs uploaded are reached by the container of a job with
\* files, only through the read-only mount of the whole input storage, so
\* that the result of a job depends on its own request and on what that
\* storage holds.
C23_JobsIsolatedButInputs ==
  \A i, j \in Jobs :
    i # j =>
      /\ OwnDirectories(i, j)
      /\ (container[j] = "running" /\ inStore[i] # <<>>) =>
           \A m \in MountsReaching(j, PathJoin(InDir(i), inStore[i][1])) :
             m.text = BIND_RO /\ m.src = STORAGE_IN /\ IsFiles(request[j])

\* C23 witness: two jobs with uploads whose containers run together, each
\* with a JobDir.
C23_Witness ==
  \E i, j \in Jobs :
    /\ i # j /\ inStore[i] # <<>> /\ inStore[j] # <<>>
    /\ pc[i] = "wait" /\ pc[j] = "wait"
    /\ HasJobDir(i) /\ HasJobDir(j)
    /\ container[i] = "running" /\ container[j] = "running"

\* C24 (as stated): whatever the path, JobDir.write either writes a file
\* whose canonical location is inside the JobDir, or raises the error for
\* an unsafe path and writes nothing; a location outside the JobDir, a
\* sibling directory whose name begins with the name of the JobDir
\* included, is never written.
C24_WriteStaysInJobDir ==
  \A j \in Jobs :
    LET w == written[j]
    IN  w.status # "none" =>
          /\ w.status = "written" =>
               IsUnder(w.path, w.dir) /\ w.path # w.dir
          /\ ~IsUnder(w.path, w.dir) => w.status = "ValueError"

(***************************************************************************)
(* The container of a C or C++ job, and the recipe specification: jobs in  *)
(* C and C++ through both coordinators, with the recipe run in the         *)
(* container                                                               *)
(***************************************************************************)
\* docker run --tmpfs <dst>:<options>: the mount point and options that
\* the value of the option assembled by get_docker_run_command_ro stands for
TmpfsMount(value) ==
  IF value = "/tmp:rw,noexec,nosuid,nodev,size=64m"
    THEN [dst |-> "/tmp",
          options |-> {"rw", "noexec", "nosuid", "nodev", "size=64m"}]
    ELSE [dst |-> value, options |-> {"rw", "noexec", "nosuid", "nodev"}]

\* The tmpfs mounts of the argument vector a
TmpfsMounts(a) ==
  { TmpfsMount(a[i + 1].text) :
      i \in {k \in OptionPositions(a, 3) : a[k] = Word("--tmpfs")} }

\* The sh -lc command lines of build_lang_command: the file the compiler
\* writes and the shell then executes, and the directory it is in
IsRecipe(a) ==
  /\ Len(a) >= 3 /\ a[Len(a) - 2] = Word("sh") /\ a[Len(a) - 1] = Word("-lc")
  /\ a[Len(a)].text \in
       {"gcc {src} -O2 -std=c11 -o /tmp/main && /tmp/main",
        "g++ {src} -O2 -std=c++17 -o /tmp/main && /tmp/main"}

BinaryDir == "/tmp"

\* sh -lc "compile && /tmp/main" in a container started with a: when the
\* compiler fails the list ends with its status; when it succeeds the
\* shell executes /tmp/main, which the kernel refuses (EACCES, status 126)
\* on a file system mounted noexec
sh_lc(a, compiles) ==
  IF ~compiles
    THEN [done |-> TRUE, compiled |-> FALSE, executed |-> FALSE,
          returncode |-> Some(1)]
  ELSE IF \E m \in TmpfsMounts(a) :
            m.dst = BinaryDir /\ "noexec" \in m.options
    THEN [done |-> TRUE, compiled |-> TRUE, executed |-> FALSE,
          returncode |-> Some(126)]
  ELSE [done |-> TRUE, compiled |-> TRUE, executed |-> TRUE,
        returncode |-> None]

\* The container of submission j runs its recipe; whether the source
\* compiles is the client's matter
container_recipe(j) ==
  /\ container[j] = "running" /\ IsRecipe(argv[j]) /\ ~recipe[j].done
  /\ \E compiles \in BOOLEAN :
       recipe' = [recipe EXCEPT ![j] = sh_lc(argv[j], compiles)]
  /\ UNCHANGED << request, pc, http, payload, inStore, outStore, jobDir,
                  container, captured, result, raised, outAtExit, argv,
                  response, answer, jobPath, written, log >>

RecipeRequests ==
  { Request("task", <<"c">>, <<"x">>, <<>>, <<>>, <<>>),
    Request("run_code", <<"c", "p", "p">>, <<"x">>, <<>>, <<>>, <<>>),
    Request("run_code_with_files", <<"c">>, <<"x">>, <<>>, <<>>, <<>>),
    Request("run_code_with_files", <<"c", "+", "+">>, <<"x">>, <<>>, <<>>,
            <<>>) }

InitRecipe ==
  /\ \E r \in RecipeRequests :
       request = [j \in Jobs |-> IF j = 1 THEN r ELSE NoRequest]
  /\ InitState

NextRecipe ==
  \E j \in Jobs :
    \/ create_new_task(j)
    \/ send_task(j)
    \/ Coordinator(j)
    \/ container_recipe(j)

SpecRecipe == InitRecipe /\ [][NextRecipe]_vars

\* C25 (as stated): the container of a C or C++ job executes /tmp/main if
\* and only if the compilation succeeded: a failed compilation gives a
\* non-zero return code without an execution, and after a successful one
\* the binary is run, the /tmp mount of the launch permitting it.
C25_BinaryRunsIffCompiled ==
  \A j \in Jobs :
    recipe[j].done =>
      /\ recipe[j].executed <=> recipe[j].compiled
      /\ ~recipe[j].compiled =>
           recipe[j].returncode # None /\ recipe[j].returncode # Some(0)

\* C26: when the coordinator runs the cleanup of its JobDir, a failure of
\* the cleanup is logged and not raised, and the outcome is the one that was
\* there before: the same result is returned, or the same exception leaves
\* the coordinator, whether the cleanup succeeds or fails.
C26_CleanupFailureKeepsOutcome ==
  [][\A j \in Jobs :
       (pc[j] = "cleanup" /\ pc'[j] # "cleanup") =>
         /\ result'[j] = result[j] /\ raised'[j] = raised[j]
         /\ pc'[j] = IF raised[j] = "" THEN "returned" ELSE "raised"
         /\ jobDir'[j] \in {"removed", "left"}
         /\ IF jobDir'[j] = "left"
              THEN log'[j] = Append(log[j], "JobDir cleanup failed")
              ELSE log'[j] = log[j]]_vars

\* C26 witness: a coordinator returned its result after a cleanup that
\* failed and was logged.
C26_Witness ==
  \E j \in Jobs :
    /\ Returned(j) /\ jobDir[j] = "left" /\ Res(j).returncode = Some(0)
    /\ log[j] = <<"JobDir cleanup failed">>

\* The file names <name>.<ext> of the paths that out_pat.sub puts in place
\* of the output tokens of s from position i on
RECURSIVE OutNames(_, _)
OutNames(s, i) ==
  IF i > Len(s) THEN {}
  ELSE LET m == out_pat(s, i)
       IN  IF m.len = 0 THEN OutNames(s, i + 1)
           ELSE {Lower(KeepValid(m.name)) \o <<".">> \o Lower(m.ext)}
                  \cup OutNames(s, i + m.len)

\* C27 (as stated): when a request with files is enqueued, every output
\* token of its source was replaced by the path of a file that the request
\* declares in output_files; a source that names an output the request
\* does not declare gets no path for it.
C27_OutputPathsAreDeclared ==
  \A j \in Jobs :
    (request[j].via = "file_task" /\ http[j] = 202) =>
      OutNames(SourceOf(j), 1) \subseteq Range(request[j].output_files)

\* C28 (as stated): on both POST endpoints, a request whose label the
\* registry normalizes to a language (a canonical id or an alias, in any
\* case, with surrounding whitespace) is accepted and reaches the
\* coordinator; a label is rejected only if the registry rejects it.
C28_SubmissionAcceptsRegistryLabels ==
  \A j \in Jobs :
    (request[j].via \in {"task", "file_task"} /\ http[j] # 0
       /\ normalize_language(request[j].programming_language) # None) =>
      http[j] = 202 /\ pc[j] # "rejected"

\* C29 (as stated): purge_storage removes neither the input nor the output
\* directory of a job that is enqueued and whose coordinator has not
\* returned: the stored inputs of the job are there from the enqueueing
\* until its container has exited, and its output directory from its
\* creation until the enumeration is done.
C29_PurgeSparesJobsInFlight ==
  \A j \in Jobs :
    request[j].via = "file_task" =>
      /\ (pc[j] \in {"queued", "mkdir", "jobdir", "write", "run", "wait"}
            /\ request[j].files # <<>>) =>
           Len(inStore[j]) = Len(request[j].files)
      /\ pc[j] \in {"jobdir", "write", "run", "wait", "collect"} =>
           outStore[j].exists

\* C30 (as stated): a request to POST /file_task/create that is rejected
\* (a limit exceeded, declared and uploaded files that differ, a bad or a
\* residual placeholder) leaves no uploaded file of it in the input
\* storage.
C30_RejectionLeavesNoUpload ==
  \A j \in Jobs :
    (request[j].via = "file_task" /\ pc[j] = "rejected") => inStore[j] = <<>>

====
